---- MODULE Spec2Model ----
(***************************************************************************)
(* RoleSync (src/rolesync/rolesync.py): cross-guild role mirroring.        *)
(*                                                                         *)
(* The cog is a set of asyncio coroutines over two stores: the Red Config  *)
(* (rules "roles", DM rules "dmroles") and the discord directory (guilds,  *)
(* members, roles).  The model has                                         *)
(*   - the directory and the Config as variables,                          *)
(*   - one task record per running coroutine: the scheduled loop, one      *)
(*     manual sweep command, the on_member_update handlers, one            *)
(*     on_member_join handler,                                             *)
(*   - one action per stretch of code between two suspension points.  A    *)
(*     listener's task runs its first stretch as its event is dispatched.  *)
(*                                                                         *)
(* A directory mutation (add_roles / remove_roles) is a remote call: the   *)
(* task issues it and is suspended (call.status = "sent"), the directory   *)
(* performs it or it fails (CallApplied / CallFailed), and the task is     *)
(* resumed with the result some time later.  Other tasks run in between.   *)
(* Directory reads (guild.get_role, guild.get_member, member.roles) read   *)
(* the directory variables at the moment of the read.                      *)
(*                                                                         *)
(* _sync_role suspends at ctx.typing() (a request, under a command's ctx), *)
(* at each add_roles / remove_roles, and every 500 members at AsyncIter's  *)
(* sleep: the members of the model are any members of a large guild, so    *)
(* other tasks may run between two of them.                                *)
(***************************************************************************)
EXTENDS Integers, Sequences, FiniteSets, TLC

(***************************************************************************)
(* Universe                                                                *)
(***************************************************************************)
\* Number of directory changes made from outside the engine in one behaviour.
MaxChanges == 2

\* Guild ids.  The bot is in guilds 1 and 2; 3 is a guild id it is not in.
Guilds == {1, 2}
GuildSeq == <<1, 2>>
GuildIds == {1, 2, 3}

Users == {1, 2}
UserSeq == <<1, 2>>

\* Role ids are unique across guilds, as discord's are.
RoleIds == {11, 12, 21, 22}
RolesOf(g) == IF g = 1 THEN {11, 12} ELSE IF g = 2 THEN {21, 22} ELSE {}
GuildOf(r) == IF r \in {11, 12} THEN 1 ELSE 2

\* role.position.  The roles of a guild sit at different positions; the
\* service account's top role is none of RoleIds and sits at TopPosition.
Positions == {1, 2, 3, 4}

Names == {"A", "B"}
NameSeq == <<"A", "B">>
Messages == {"welcome", "hello"}

\* on_member_update handler tasks that can be alive at once.
Handlers == {"h1", "h2"}
HandlerSeq == <<"h1", "h2">>

VARIABLES
    bot_guilds,   \* self.bot.guilds: the guild ids the bot is in
    guild_roles,  \* guild.roles: [Guilds -> SUBSET RoleIds], what get_role resolves
    members,      \* guild.members: [Guilds -> SUBSET Users]
    roles,        \* member.roles: [Guilds -> [Users -> SUBSET RoleIds]]
    position,     \* role.position: [RoleIds -> Positions]
    top_role,     \* guild.me.top_role.position: [Guilds -> Positions]
    manage_roles, \* guilds where guild.me.guild_permissions.manage_roles
    bots,         \* users with member.bot
    disabled,     \* guilds where bot.cog_disabled_in_guild(self, guild)
    bot_state,    \* "connecting", "ready" or "closed"
    rules,        \* config.guild(g).roles(): [Guilds -> [subset of Names -> pair]]
    dmroles,      \* config.guild(g).dmroles(): [Guilds -> [subset of keys -> message]]
    loop,         \* the task running _scheduled_sync_loop
    manual,       \* the task running a forcesync / forcesyncall command
    upd,          \* [Handlers -> the task running _member_update]
    joinh,        \* the task running _member_join
    reply,        \* what the last rule command answered
    budget,       \* outside changes left (MaxChanges at the start)
    keep_finished,\* whether a finished listener task's record is kept for inspection
    quiet,        \* tasks no other party has changed the stores under since they began
    second,       \* sweep tasks repeating the sweep in last_sweep with nothing changed
    last_sweep    \* the last _sync_role run that went through its member loop

dirVars == <<bot_guilds, guild_roles, members, roles, position, top_role,
             manage_roles, bots, disabled>>
cfgVars == <<rules, dmroles>>
taskVars == <<loop, manual, upd, joinh>>
ghostVars == <<quiet, second, last_sweep>>
vars == <<bot_guilds, guild_roles, members, roles, position, top_role,
          manage_roles, bots, disabled, bot_state, rules, dmroles,
          loop, manual, upd, joinh, reply, budget, keep_finished,
          quiet, second, last_sweep>>

(***************************************************************************)
(* Small helpers                                                           *)
(***************************************************************************)
\* The names of a settings dict in iteration order.
KeysOf(settings) == SelectSeq(NameSeq, LAMBDA n : n \in DOMAIN settings)

\* guild.members as a list.
MemberList(g) == SelectSeq(UserSeq, LAMBDA u : u \in members[g])

\* A settings dict holding the one key only.
DictSetAlone(d, k, v) == [x \in {k} |-> v]

\* A settings dict with one more key.
DictSet(d, k, v) == [x \in (DOMAIN d) \cup {k} |-> IF x = k THEN v ELSE d[x]]

\* A settings dict without a key.
DictDel(d, k) == [x \in (DOMAIN d) \ {k} |-> d[x]]

EmptyDict == [x \in {} |-> 0]

\* A task that is not running.
Finished(pc) == pc \in {"idle", "done", "raised"}

\* What a command answered; tick tells two equal answers in a row apart, and
\* listed is the rules a listing showed.
NoReply ==
    [cmd |-> "", guild |-> 0, name |-> "", result |-> "", author_top |-> 0,
     owner |-> FALSE, tick |-> FALSE, listed |-> EmptyDict]

\* A rule as stored by rs_add / add_rolesync_pair.
Pair(to_add, other_server, to_check) ==
    [to_add |-> to_add, other_server |-> other_server, to_check |-> to_check]

(***************************************************************************)
(* The directory's read interface                                          *)
(***************************************************************************)
\* bot.get_guild(id): the guild, or None.
get_guild(id) == id \in bot_guilds

\* guild.get_role(id): the role, or None.
get_role(g, id) == g \in Guilds /\ id \in guild_roles[g]

\* guild.get_member(id): the member, or None.
get_member(g, u) == g \in Guilds /\ u \in members[g]

\* role >= guild.me.top_role, discord's comparison by position.
AtOrAboveTop(g, r) == position[r] >= top_role[g]

(***************************************************************************)
(* Remote calls                                                            *)
(***************************************************************************)
NoCall == [op |-> "none", guild |-> 0, user |-> 0, role |-> 0, status |-> "none"]

\* member.add_roles(role) / member.remove_roles(role), just issued.
Call(op, g, u, r) == [op |-> op, guild |-> g, user |-> u, role |-> r, status |-> "sent"]


(***************************************************************************)
(* Bookkeeping for the claims (no counterpart in the code)                 *)
(***************************************************************************)
NoSweep ==
    [guild |-> 0, name |-> "", remove_role |-> FALSE, quiet |-> FALSE,
     to_sync |-> [to_add |-> 0, other_server |-> 0, to_check |-> 0],
     holders |-> {}, calls |-> 0]

\* Party `self` changes a store: every other task has now seen a change.
\* The tasks in `born` begin with this step.
Disturb(self, born) ==
    /\ quiet' = (quiet \cap {self}) \cup born
    /\ second' = second \cap {self}
    /\ last_sweep' = [last_sweep EXCEPT !.quiet = FALSE]

(***************************************************************************)
(* _sync_role: one sweep of one rule                                       *)
(***************************************************************************)
\* holders and calls are bookkeeping: the members holding the target role as
\* the sweep began, and the calls the sweep has issued.
IdleSweep ==
    [pc |-> "idle", guilds |-> <<>>, guild |-> 0, settings |-> EmptyDict,
     names |-> <<>>, remove_role |-> FALSE, members |-> <<>>, call |-> NoCall,
     holders |-> {}, calls |-> 0]

\* self.bot.guilds as a list.
BotGuildList == SelectSeq(GuildSeq, LAMBDA g : g \in bot_guilds)

\* Lines 199-209: the lookups and the hierarchy check that precede the member loop.
SyncRoleChecks(g, to_sync) ==
    IF ~get_guild(to_sync.other_server) THEN "source_guild_not_found"
    ELSE IF ~get_role(to_sync.other_server, to_sync.to_check) THEN "source_role_not_found"
    ELSE IF ~get_role(g, to_sync.to_add) \/ AtOrAboveTop(g, to_sync.to_add)
         THEN "target_missing_or_above"
    ELSE "sweep"

\* Line 215: has_src = src_member and src_role in src_member.roles.
HasSrc(to_sync, m) ==
    /\ get_member(to_sync.other_server, m)
    /\ to_sync.to_check \in roles[to_sync.other_server][m]

\* Lines 214-221 with the grant branch not looking at has_tgt.
SyncRoleDecisionBlind(g, to_sync, m, remove_role) ==
    LET has_src == HasSrc(to_sync, m)
        has_tgt == to_sync.to_add \in roles[g][m]
    IN  IF has_src THEN "add"
        ELSE IF ~has_src /\ has_tgt /\ remove_role THEN "remove"
        ELSE "none"

\* Lines 214-221 without the branch of lines 220-221.
SyncRoleDecisionNoRevoke(g, to_sync, m, remove_role) ==
    LET has_src == HasSrc(to_sync, m)
        has_tgt == to_sync.to_add \in roles[g][m]
    IN  IF has_src /\ ~has_tgt THEN "add" ELSE "none"

\* Lines 214-221 with line 220 not looking at remove_role.
SyncRoleDecisionAlwaysRevoke(g, to_sync, m, remove_role) ==
    LET has_src == HasSrc(to_sync, m)
        has_tgt == to_sync.to_add \in roles[g][m]
    IN  IF has_src /\ ~has_tgt THEN "add"
        ELSE IF ~has_src /\ has_tgt THEN "remove"
        ELSE "none"

\* Lines 214-221: what the sweep does for member m.
SyncRoleDecision(g, to_sync, m, remove_role) ==
    LET has_src == HasSrc(to_sync, m)
        has_tgt == to_sync.to_add \in roles[g][m]
    IN  IF has_src /\ ~has_tgt THEN "add"
        ELSE IF ~has_src /\ has_tgt /\ remove_role THEN "remove"
        ELSE "none"

\* Lines 195-210: the task enters _sync_role for the rule at the head of its
\* names.  When a check fails _sync_role returns and the caller goes on.
SweepEnter(t) ==
    LET to_sync == t.settings[Head(t.names)]
    IN  IF SyncRoleChecks(t.guild, to_sync) # "sweep"
        THEN [t EXCEPT !.names = Tail(t.names)]
        ELSE [t EXCEPT !.pc = "for_member", !.members = MemberList(t.guild),
                       !.holders = {m \in members[t.guild] :
                                      to_sync.to_add \in roles[t.guild][m]},
                       !.calls = 0]

\* Lines 212-221 with the calls of lines 219 and 221 made for src_role.
SweepMemberSourceRole(t) ==
    IF t.members = <<>>
    THEN [t EXCEPT !.pc = "for_name", !.names = Tail(t.names)]
    ELSE LET to_sync == t.settings[Head(t.names)]
             m == Head(t.members)
             d == SyncRoleDecision(t.guild, to_sync, m, t.remove_role)
         IN  IF d = "none"
             THEN [t EXCEPT !.members = Tail(t.members)]
             ELSE [t EXCEPT !.pc = "await_call",
                            !.call = Call(d, t.guild, m, to_sync.to_check),
                            !.calls = t.calls + 1]

\* Lines 212-221: one turn of the member loop; line 223 when the list is done.
SweepMember(t) ==
    IF t.members = <<>>
    THEN [t EXCEPT !.pc = "for_name", !.names = Tail(t.names)]
    ELSE LET to_sync == t.settings[Head(t.names)]
             m == Head(t.members)
             d == SyncRoleDecision(t.guild, to_sync, m, t.remove_role)
         IN  IF d = "none"
             THEN [t EXCEPT !.members = Tail(t.members)]
             ELSE [t EXCEPT !.pc = "await_call",
                            !.call = Call(d, t.guild, m, to_sync.to_add),
                            !.calls = t.calls + 1]

\* The sweep a task is making: the rule at the head of its names.
SweepKey(t, q) ==
    [guild |-> t.guild, name |-> Head(t.names), remove_role |-> t.remove_role,
     quiet |-> q, to_sync |-> t.settings[Head(t.names)],
     holders |-> t.holders, calls |-> t.calls]

\* The task is about to repeat the sweep noted in last_sweep, with nothing
\* changed since that sweep began.
Repeats(t) ==
    /\ last_sweep.quiet
    /\ last_sweep.guild = t.guild
    /\ last_sweep.name = Head(t.names)
    /\ last_sweep.remove_role = t.remove_role
    /\ last_sweep.to_sync = t.settings[Head(t.names)]

\* Bookkeeping of SweepEnter for task id.
NoteEnter(id, t) ==
    /\ quiet' = quiet \cup {id}
    /\ second' = IF Repeats(t) THEN second \cup {id} ELSE second \ {id}
    /\ UNCHANGED last_sweep

\* Bookkeeping of SweepMember for task id.
NoteMember(id, t) ==
    /\ last_sweep' = IF t.members = <<>> THEN SweepKey(t, id \in quiet)
                     ELSE last_sweep
    /\ UNCHANGED <<quiet, second>>

(***************************************************************************)
(* _scheduled_sync_loop and _sync_role under DummyCtx                      *)
(***************************************************************************)
\* remove_role is the argument of the loop's last call of _sync_role (FALSE
\* before the first call); printed tells whether line 169 has ever run.
IdleLoop ==
    [pc |-> "idle", guilds |-> <<>>, guild |-> 0, settings |-> EmptyDict,
     names |-> <<>>, remove_role |-> FALSE, printed |-> FALSE]

\* Lines 195-211 with ctx a DummyCtx (lines 38-62).  DummyCtx.typing is a
\* property whose value is the _T object, so ctx.typing() at line 211 calls
\* that object and raises TypeError.  A failed check returns before line 211
\* (DummyCtx.send does nothing).
DummySyncRole(g, to_sync) ==
    IF SyncRoleChecks(g, to_sync) = "sweep" THEN "TypeError" ELSE "returned"

\* Line 159 left out: the loop does not wait for the connection.
LoopWaitReadySkipped ==
    /\ loop.pc = "wait_ready"
    /\ loop' = [loop EXCEPT !.pc = "while"]
    /\ UNCHANGED <<dirVars, cfgVars, bot_state, manual, upd, joinh,
                   reply, budget, keep_finished, ghostVars>>

\* Line 159: await self.bot.wait_until_ready().
LoopWaitReady ==
    /\ loop.pc = "wait_ready"
    /\ bot_state # "connecting"
    /\ loop' = [loop EXCEPT !.pc = "while"]
    /\ UNCHANGED <<dirVars, cfgVars, bot_state, manual, upd, joinh,
                   reply, budget, keep_finished, ghostVars>>

\* Line 160: while not self.bot.is_closed(); line 162 starts the guild loop.
LoopWhile ==
    /\ loop.pc = "while"
    /\ loop' = IF bot_state = "closed"
               THEN [loop EXCEPT !.pc = "exited"]
               ELSE [loop EXCEPT !.pc = "for_guild", !.guilds = BotGuildList]
    /\ UNCHANGED <<dirVars, cfgVars, bot_state, manual, upd, joinh,
                   reply, budget, keep_finished, ghostVars>>

\* Lines 162-165: the next guild, its disabled check and its settings;
\* line 170 when the guilds are done.
LoopForGuild ==
    /\ loop.pc = "for_guild"
    /\ loop' =
         IF loop.guilds = <<>> THEN [loop EXCEPT !.pc = "sleep"]
         ELSE LET g == Head(loop.guilds)
              IN  IF g \in disabled
                  THEN [loop EXCEPT !.guilds = Tail(loop.guilds)]
                  ELSE [loop EXCEPT !.pc = "for_name", !.guild = g,
                                    !.guilds = Tail(loop.guilds),
                                    !.settings = rules[g],
                                    !.names = KeysOf(rules[g])]
    /\ UNCHANGED <<dirVars, cfgVars, bot_state, manual, upd, joinh,
                   reply, budget, keep_finished, ghostVars>>

\* Lines 166-169 with no try / except around the for loops: the TypeError
\* leaves _scheduled_sync_loop and the task ends.
LoopForNameUncaught ==
    /\ loop.pc = "for_name"
    /\ IF loop.names = <<>>
       THEN /\ loop' = [loop EXCEPT !.pc = "for_guild"]
            /\ UNCHANGED ghostVars
       ELSE /\ loop' =
                 IF DummySyncRole(loop.guild, loop.settings[Head(loop.names)])
                      = "TypeError"
                 THEN [loop EXCEPT !.pc = "exited", !.remove_role = TRUE]
                 ELSE [loop EXCEPT !.names = Tail(loop.names),
                                   !.remove_role = TRUE]
            /\ quiet' = quiet \cup {"loop"}
            /\ UNCHANGED <<second, last_sweep>>
    /\ UNCHANGED <<dirVars, cfgVars, bot_state, manual, upd, joinh,
                   reply, budget, keep_finished>>

\* Lines 166-167 with DummyCtx.typing a method, not a property: _sync_role
\* goes through its member loop, where every call is performed.
LoopForNameSweeping ==
    /\ loop.pc = "for_name"
    /\ IF loop.names = <<>>
       THEN /\ loop' = [loop EXCEPT !.pc = "for_guild"]
            /\ UNCHANGED <<roles, ghostVars>>
       ELSE LET g == loop.guild
                to_sync == loop.settings[Head(loop.names)]
                swept(u) ==
                    LET d == SyncRoleDecision(g, to_sync, u, TRUE)
                    IN  IF u \notin members[g] THEN roles[g][u]
                        ELSE IF d = "add" THEN roles[g][u] \cup {to_sync.to_add}
                        ELSE IF d = "remove" THEN roles[g][u] \ {to_sync.to_add}
                        ELSE roles[g][u]
            IN  /\ loop' = [loop EXCEPT !.names = Tail(loop.names),
                                        !.remove_role = TRUE]
                /\ roles' = IF SyncRoleChecks(g, to_sync) = "sweep"
                            THEN [roles EXCEPT ![g] = [u \in Users |-> swept(u)]]
                            ELSE roles
                /\ quiet' = quiet \cup {"loop"}
                /\ UNCHANGED <<second, last_sweep>>
    /\ UNCHANGED <<bot_guilds, guild_roles, members, position, top_role,
                   manage_roles, bots, disabled, cfgVars, bot_state, manual,
                   upd, joinh, reply, budget, keep_finished>>

\* Lines 166-169: _sync_role(DummyCtx(guild), settings, name, remove_role=True)
\* for the next name.  Its TypeError leaves the for loops and is caught at
\* line 168 and printed; line 170 follows, the names left standing in the
\* task's locals.
LoopForName ==
    /\ loop.pc = "for_name"
    /\ IF loop.names = <<>>
       THEN /\ loop' = [loop EXCEPT !.pc = "for_guild"]
            /\ UNCHANGED ghostVars
       ELSE /\ loop' =
                 IF DummySyncRole(loop.guild, loop.settings[Head(loop.names)])
                      = "TypeError"
                 THEN [loop EXCEPT !.pc = "sleep", !.remove_role = TRUE,
                                   !.printed = TRUE]
                 ELSE [loop EXCEPT !.names = Tail(loop.names),
                                   !.remove_role = TRUE]
            /\ quiet' = quiet \cup {"loop"}
            /\ UNCHANGED <<second, last_sweep>>
    /\ UNCHANGED <<dirVars, cfgVars, bot_state, manual, upd, joinh,
                   reply, budget, keep_finished>>

\* Line 170: await asyncio.sleep(3600) is over.
LoopSleep ==
    /\ loop.pc = "sleep"
    /\ loop' = [loop EXCEPT !.pc = "while"]
    /\ UNCHANGED <<dirVars, cfgVars, bot_state, manual, upd, joinh,
                   reply, budget, keep_finished, ghostVars>>

\* The CancelledError thrown into the task at its await, caught at line 168
\* as an Exception would be: line 169 prints and line 170 sleeps.
LoopCancelledCaught ==
    /\ loop.pc = "cancelling"
    /\ loop' = [loop EXCEPT !.pc = "sleep", !.printed = TRUE]
    /\ UNCHANGED <<dirVars, cfgVars, bot_state, manual, upd, joinh,
                   reply, budget, keep_finished, ghostVars>>

\* The task is woken with the CancelledError thrown at the await it was
\* suspended in (lines 159, 163, 165, 170).  CancelledError is no Exception:
\* line 168 does not catch it, and it ends the task.
LoopCancelled ==
    /\ loop.pc = "cancelling"
    /\ loop' = [loop EXCEPT !.pc = "cancelled"]
    /\ UNCHANGED <<dirVars, cfgVars, bot_state, manual, upd, joinh,
                   reply, budget, keep_finished, ghostVars>>

\* A step of the scheduled loop's own code.
LoopRun == LoopWaitReady \/ LoopWhile \/ LoopForGuild \/ LoopForName \/ LoopSleep

\* A step of the scheduled loop's task.
LoopStep == LoopRun \/ LoopCancelled

\* Line 159: the connection is ready; wait_until_ready() returns from now on.
bot_ready ==
    /\ bot_state = "connecting"
    /\ bot_state' = "ready"
    /\ UNCHANGED <<dirVars, cfgVars, taskVars, reply, budget, keep_finished,
                   ghostVars>>

\* Line 160: the bot is closed; self.bot.is_closed() is true from now on.
bot_close ==
    /\ bot_state # "closed"
    /\ bot_state' = "closed"
    /\ UNCHANGED <<dirVars, cfgVars, taskVars, reply, budget, keep_finished,
                   ghostVars>>

\* Lines 87-88: cog_unload cancels the loop's task.  The await the task is
\* suspended in is cancelled: the task runs nothing more of its code but the
\* CancelledError it is woken with.
cog_unload ==
    /\ loop.pc \notin {"exited", "cancelled", "cancelling"}
    /\ loop' = [loop EXCEPT !.pc = "cancelling"]
    /\ UNCHANGED <<dirVars, cfgVars, bot_state, manual, upd, joinh, reply,
                   budget, keep_finished, ghostVars>>

(***************************************************************************)
(* rolesync forcesync / forcesyncall, and the Assistant's force_sync_roles *)
(***************************************************************************)
\* Lines 300-306: rs_forcesync(ctx, name, remove_role).
rs_forcesync(g, name, remove_role) ==
    /\ Finished(manual.pc)
    /\ IF name \notin DOMAIN rules[g]
       THEN /\ manual' = [IdleSweep EXCEPT !.pc = "done"]
            /\ reply' = [NoReply EXCEPT !.cmd = "rs_forcesync", !.guild = g,
                                        !.name = name,
                                        !.result = "No rule by that name.",
                                        !.tick = ~reply.tick]
       ELSE /\ manual' = [IdleSweep EXCEPT !.pc = "for_name", !.guild = g,
                                           !.settings = rules[g],
                                           !.names = <<name>>,
                                           !.remove_role = remove_role]
            /\ UNCHANGED reply
    /\ UNCHANGED <<dirVars, cfgVars, bot_state, loop, upd, joinh,
                   budget, keep_finished, ghostVars>>

\* Lines 308-313: rs_forcesyncall(ctx, remove_role).
rs_forcesyncall(g, remove_role) ==
    /\ Finished(manual.pc)
    /\ manual' = [IdleSweep EXCEPT !.pc = "for_name", !.guild = g,
                                   !.settings = rules[g],
                                   !.names = KeysOf(rules[g]),
                                   !.remove_role = remove_role]
    /\ UNCHANGED <<dirVars, cfgVars, bot_state, loop, upd, joinh,
                   reply, budget, keep_finished, ghostVars>>

\* Lines 475-480: the Assistant's force_sync_roles, which runs _sync_role
\* under a DummyCtx; nothing in it catches the TypeError.
force_sync_roles(g, name, remove_role) ==
    /\ reply' = [NoReply EXCEPT
                   !.cmd = "force_sync_roles", !.guild = g, !.name = name,
                   !.result = IF name \notin DOMAIN rules[g] THEN "No such rule"
                              ELSE IF DummySyncRole(g, rules[g][name]) = "TypeError"
                              THEN "TypeError"
                              ELSE "success",
                   !.tick = ~reply.tick]
    /\ UNCHANGED <<dirVars, cfgVars, bot_state, taskVars, budget,
                   keep_finished, ghostVars>>

\* Lines 482-486: the Assistant's force_sync_all_roles.  The first rule whose
\* checks pass raises the TypeError, which ends the function.
force_sync_all_roles(g, remove_role) ==
    /\ reply' = [NoReply EXCEPT
                   !.cmd = "force_sync_all_roles", !.guild = g,
                   !.result = IF \E n \in DOMAIN rules[g] :
                                    DummySyncRole(g, rules[g][n]) = "TypeError"
                              THEN "TypeError"
                              ELSE "success",
                   !.tick = ~reply.tick]
    /\ UNCHANGED <<dirVars, cfgVars, bot_state, taskVars, budget,
                   keep_finished, ghostVars>>

\* Lines 306 / 312-313: the command's next call of _sync_role, or its end.
ManualForName ==
    /\ manual.pc = "for_name"
    /\ IF manual.names = <<>>
       THEN /\ manual' = [IdleSweep EXCEPT !.pc = "done"]
            /\ UNCHANGED ghostVars
       ELSE /\ manual' = SweepEnter(manual)
            /\ NoteEnter("manual", manual)
    /\ UNCHANGED <<dirVars, cfgVars, bot_state, loop, upd, joinh,
                   reply, budget, keep_finished>>

\* Lines 211-223 inside a command: ctx.typing() has returned.
ManualForMember ==
    /\ manual.pc = "for_member"
    /\ manual' = SweepMember(manual)
    /\ NoteMember("manual", manual)
    /\ UNCHANGED <<dirVars, cfgVars, bot_state, loop, upd, joinh,
                   reply, budget, keep_finished>>

\* The awaited call returns.  Nothing in the command catches an exception.
ManualResume ==
    /\ manual.pc = "await_call"
    /\ manual.call.status \in {"ok", "error"}
    /\ manual' = IF manual.call.status = "ok"
                 THEN [manual EXCEPT !.pc = "for_member", !.call = NoCall,
                                     !.members = Tail(manual.members)]
                 ELSE [IdleSweep EXCEPT !.pc = "raised"]
    /\ UNCHANGED <<dirVars, cfgVars, bot_state, loop, upd, joinh,
                   reply, budget, keep_finished, ghostVars>>

(***************************************************************************)
(* _member_update                                                          *)
(***************************************************************************)
IdleUpd ==
    [pc |-> "idle", guild |-> 0, user |-> 0, before |-> {}, after |-> {},
     held |-> {}, guilds |-> <<>>, tguild |-> 0, settings |-> EmptyDict,
     names |-> <<>>, call |-> NoCall,
     mguilds |-> <<>>, dmsnap |-> EmptyDict, added |-> <<>>, dms |-> <<>>]

\* What is kept of a finished _member_update task: how it ended, its event,
\* what the member held as the event came, and the DMs it sent.
KeptUpd(h) ==
    [IdleUpd EXCEPT !.pc = h.pc, !.guild = h.guild, !.user = h.user,
                    !.before = h.before, !.after = h.after, !.held = h.held,
                    !.dms = h.dms]

\* A finished listener task leaves nothing behind, unless its record is kept.
UpdFin(h) ==
    IF ~Finished(h.pc) THEN h ELSE IF keep_finished THEN KeptUpd(h) ELSE IdleUpd

\* str(role.id), the key of a DM rule.
Str(r) ==
    CASE r = 11 -> "11" [] r = 12 -> "12" [] r = 21 -> "21" [] r = 22 -> "22"
      [] OTHER -> "0"

RoleSeq == <<11, 12, 21, 22>>

\* Line 149 finding no added role.
AddedRolesNone(h) == SelectSeq(RoleSeq, LAMBDA r : FALSE)

\* Line 149: added_roles = [r for r in after.roles if r not in before.roles].
AddedRoles(h) == SelectSeq(RoleSeq, LAMBDA r : r \in h.after /\ r \notin h.before)

\* Line 144: before.mutual_guilds, the bot's guilds the user is a member of.
MutualGuilds(user) == SelectSeq(BotGuildList, LAMBDA g : user \in members[g])

\* Lines 116-141 without the branch of lines 136-139.
UpdDecisionNoGain(h, g, pair, rl) ==
    IF pair.other_server # h.guild THEN "none"
    ELSE IF \/ ~get_role(h.guild, pair.to_check)
            \/ ~get_role(g, pair.to_add)
            \/ AtOrAboveTop(g, pair.to_add) THEN "none"
    ELSE IF ~get_member(g, h.user) THEN "none"
    ELSE IF pair.to_check \in h.before /\ pair.to_check \notin h.after
         THEN (IF pair.to_add \in rl[g][h.user] THEN "remove" ELSE "none")
    ELSE "none"

\* Lines 116-141 without the looks at target_member.roles of lines 130, 137.
UpdDecisionBlind(h, g, pair, rl) ==
    IF pair.other_server # h.guild THEN "none"
    ELSE IF \/ ~get_role(h.guild, pair.to_check)
            \/ ~get_role(g, pair.to_add)
            \/ AtOrAboveTop(g, pair.to_add) THEN "none"
    ELSE IF ~get_member(g, h.user) THEN "none"
    ELSE IF pair.to_check \in h.before /\ pair.to_check \notin h.after THEN "remove"
    ELSE IF pair.to_check \notin h.before /\ pair.to_check \in h.after THEN "add"
    ELSE "none"

\* Lines 116-141 going by the roles after the event alone, not by what the
\* event changed.
UpdDecisionByState(h, g, pair, rl) ==
    IF pair.other_server # h.guild THEN "none"
    ELSE IF \/ ~get_role(h.guild, pair.to_check)
            \/ ~get_role(g, pair.to_add)
            \/ AtOrAboveTop(g, pair.to_add) THEN "none"
    ELSE IF ~get_member(g, h.user) THEN "none"
    ELSE IF pair.to_check \notin h.after
         THEN (IF pair.to_add \in rl[g][h.user] THEN "remove" ELSE "none")
    ELSE (IF pair.to_add \notin rl[g][h.user] THEN "add" ELSE "none")

\* Lines 116-141 for one pair of target guild g: the call to make, if any.
\* `rl` is member.roles as the listener reads it.
UpdDecision(h, g, pair, rl) ==
    IF pair.other_server # h.guild THEN "none"
    ELSE IF \/ ~get_role(h.guild, pair.to_check)
            \/ ~get_role(g, pair.to_add)
            \/ AtOrAboveTop(g, pair.to_add) THEN "none"
    ELSE IF ~get_member(g, h.user) THEN "none"
    ELSE IF pair.to_check \in h.before /\ pair.to_check \notin h.after
         THEN (IF pair.to_add \in rl[g][h.user] THEN "remove" ELSE "none")
    ELSE IF pair.to_check \notin h.before /\ pair.to_check \in h.after
         THEN (IF pair.to_add \notin rl[g][h.user] THEN "add" ELSE "none")
    ELSE "none"

\* Lines 144-155 from where h stands, up to the next after.send or the end.
RECURSIVE DmScan(_)
DmScan(h) ==
    IF h.added # <<>>
    THEN IF Str(Head(h.added)) \in DOMAIN h.dmsnap
         THEN [h EXCEPT !.pc = "await_send"]
         ELSE DmScan([h EXCEPT !.added = Tail(h.added)])
    ELSE IF h.mguilds # <<>>
    THEN LET dm == dmroles[Head(h.mguilds)]
         IN  IF DOMAIN dm = {}
             THEN DmScan([h EXCEPT !.mguilds = Tail(h.mguilds)])
             ELSE DmScan([h EXCEPT !.mguilds = Tail(h.mguilds), !.dmsnap = dm,
                                   !.added = AddedRoles(h)])
    ELSE [h EXCEPT !.pc = "done"]

\* Lines 110-141 from where h stands, up to the next add_roles / remove_roles;
\* with none left, on into lines 144-155.
RECURSIVE UpdScan(_, _)
UpdScan(h, rl) ==
    IF h.names # <<>>
    THEN LET pair == h.settings[Head(h.names)]
             d == UpdDecision(h, h.tguild, pair, rl)
         IN  IF d # "none"
             THEN [h EXCEPT !.pc = "await_call",
                            !.call = Call(d, h.tguild, h.user, pair.to_add)]
             ELSE UpdScan([h EXCEPT !.names = Tail(h.names)], rl)
    ELSE IF h.guilds # <<>>
    THEN LET g == Head(h.guilds)
         IN  IF g \in disabled
             THEN UpdScan([h EXCEPT !.guilds = Tail(h.guilds)], rl)
             ELSE UpdScan([h EXCEPT !.guilds = Tail(h.guilds), !.tguild = g,
                                    !.settings = rules[g],
                                    !.names = KeysOf(rules[g])], rl)
    ELSE DmScan([h EXCEPT !.mguilds = MutualGuilds(h.user)])

\* Every role the user holds, over all guilds, with member.roles being rl.
HeldBy(user, rl) == UNION {rl[g][user] : g \in Guilds}

\* Lines 104-110: on_member_update(before, after) of member user of guild g.
\* The listener ignores a bot's update.  The result is the task at its first
\* suspension, or finished.
member_update(g, user, before, after, rl) ==
    LET h == [IdleUpd EXCEPT !.pc = "start", !.guild = g, !.user = user,
                             !.before = before, !.after = after,
                             !.held = IF keep_finished THEN HeldBy(user, rl)
                                      ELSE {}]
    IN  UpdFin(IF user \in bots THEN [h EXCEPT !.pc = "done"]
               ELSE UpdScan([h EXCEPT !.guilds = BotGuildList], rl))

\* The handler slots free to take a new task: the unused ones first, then
\* those whose kept record is of a finished task.
FreeSlots(u) ==
    SelectSeq(HandlerSeq, LAMBDA i : u[i].pc = "idle")
      \o SelectSeq(HandlerSeq, LAMBDA i : u[i].pc \in {"done", "raised"})

\* The new listener task h can be taken: a running task needs a slot.
CanDispatch(u, h) == Finished(h.pc) \/ FreeSlots(u) # <<>>

\* The value of upd `u` with the new listener task h in a free slot.
Dispatched(u, h) ==
    IF h = IdleUpd \/ FreeSlots(u) = <<>> THEN u
    ELSE [u EXCEPT ![Head(FreeSlots(u))] = h]

\* The slot the new listener task h takes, as a set.
SlotOf(u, h) ==
    IF h = IdleUpd \/ FreeSlots(u) = <<>> THEN {} ELSE {Head(FreeSlots(u))}

\* Lines 131 / 138: the awaited call returns.  Nothing in the listener catches
\* an exception.
UpdResume(i) ==
    /\ upd[i].pc = "await_call"
    /\ upd[i].call.status \in {"ok", "error"}
    /\ upd' = [upd EXCEPT ![i] =
                 UpdFin(IF upd[i].call.status = "ok"
                        THEN UpdScan([upd[i] EXCEPT !.call = NoCall,
                                                    !.names = Tail(upd[i].names)],
                                     roles)
                        ELSE [upd[i] EXCEPT !.pc = "raised", !.call = NoCall])]
    /\ UNCHANGED <<dirVars, cfgVars, bot_state, loop, manual, joinh,
                   reply, budget, keep_finished, ghostVars>>

SendOutcomes == {"ok", "Forbidden", "HTTPException"}

\* Lines 152-155: after.send returns.  discord.Forbidden is passed over, any
\* other exception leaves the listener.  dms notes every send and its outcome.
UpdSendReturn(i, outcome) ==
    /\ upd[i].pc = "await_send"
    /\ LET r == Head(upd[i].added)
           h == [upd[i] EXCEPT !.dms =
                   Append(@, [role |-> r, message |-> upd[i].dmsnap[Str(r)],
                              outcome |-> outcome])]
       IN  upd' = [upd EXCEPT ![i] =
                     UpdFin(IF outcome \in {"ok", "Forbidden"}
                            THEN DmScan([h EXCEPT !.added = Tail(h.added)])
                            ELSE [h EXCEPT !.pc = "raised"])]
    /\ UNCHANGED <<dirVars, cfgVars, bot_state, loop, manual, joinh,
                   reply, budget, keep_finished, ghostVars>>

(***************************************************************************)
(* _member_join and _apply_synced_roles                                    *)
(***************************************************************************)
IdleJoin ==
    [pc |-> "idle", guild |-> 0, user |-> 0, settings |-> EmptyDict,
     names |-> <<>>, call |-> NoCall]

\* A finished _member_join task leaves nothing behind, unless its record is kept.
JoinFin(j) ==
    IF ~Finished(j.pc) THEN j
    ELSE IF keep_finished
         THEN [IdleJoin EXCEPT !.pc = j.pc, !.guild = j.guild, !.user = j.user]
         ELSE IdleJoin

\* Lines 177-189 granting only to a member who holds no role of the guild.
JoinDecisionRoleless(j, pair, mb, rl) ==
    IF ~get_guild(pair.other_server) THEN "none"
    ELSE IF \/ ~get_role(pair.other_server, pair.to_check)
            \/ j.user \notin mb[pair.other_server]
            \/ pair.to_check \notin rl[pair.other_server][j.user] THEN "none"
    ELSE IF ~get_role(j.guild, pair.to_add) \/ AtOrAboveTop(j.guild, pair.to_add)
         THEN "none"
    ELSE IF rl[j.guild][j.user] = {} THEN "add"
    ELSE "none"

\* Lines 177-189 for one pair: whether add_roles is called.  `mb` and `rl`
\* are guild.members and member.roles as the listener reads them.
JoinDecision(j, pair, mb, rl) ==
    IF ~get_guild(pair.other_server) THEN "none"
    ELSE IF \/ ~get_role(pair.other_server, pair.to_check)
            \/ j.user \notin mb[pair.other_server]
            \/ pair.to_check \notin rl[pair.other_server][j.user] THEN "none"
    ELSE IF ~get_role(j.guild, pair.to_add) \/ AtOrAboveTop(j.guild, pair.to_add)
         THEN "none"
    ELSE IF pair.to_add \notin rl[j.guild][j.user] THEN "add"
    ELSE "none"

\* Lines 176-193 from where j stands, up to the next add_roles or the end.
RECURSIVE JoinScan(_, _, _)
JoinScan(j, mb, rl) ==
    IF j.names = <<>> THEN [j EXCEPT !.pc = "done"]
    ELSE LET pair == j.settings[Head(j.names)]
         IN  IF JoinDecision(j, pair, mb, rl) = "add"
             THEN [j EXCEPT !.pc = "await_call",
                            !.call = Call("add", j.guild, j.user, pair.to_add)]
             ELSE JoinScan([j EXCEPT !.names = Tail(j.names)], mb, rl)

\* Lines 92-101 and 175 without the test of line 96.
member_joinUnguarded(g, user, mb, rl) ==
    LET j == [IdleJoin EXCEPT !.pc = "start", !.guild = g, !.user = user]
    IN  JoinFin(IF user \in bots \/ g \notin manage_roles
                THEN [j EXCEPT !.pc = "done"]
                ELSE JoinScan([j EXCEPT !.settings = rules[g],
                                        !.names = KeysOf(rules[g])], mb, rl))

\* Lines 92-101 and 175 without the test of line 97.
member_joinUnchecked(g, user, mb, rl) ==
    LET j == [IdleJoin EXCEPT !.pc = "start", !.guild = g, !.user = user]
    IN  JoinFin(IF user \in bots \/ g \in disabled
                THEN [j EXCEPT !.pc = "done"]
                ELSE JoinScan([j EXCEPT !.settings = rules[g],
                                        !.names = KeysOf(rules[g])], mb, rl))

\* Lines 92-101 and 175: on_member_join(member) of guild g.
member_join(g, user, mb, rl) ==
    LET j == [IdleJoin EXCEPT !.pc = "start", !.guild = g, !.user = user]
    IN  JoinFin(IF user \in bots \/ g \in disabled \/ g \notin manage_roles
                THEN [j EXCEPT !.pc = "done"]
                ELSE JoinScan([j EXCEPT !.settings = rules[g],
                                        !.names = KeysOf(rules[g])], mb, rl))

\* Line 190: the awaited call returns.
JoinResume ==
    /\ joinh.pc = "await_call"
    /\ joinh.call.status \in {"ok", "error"}
    /\ joinh' = JoinFin(IF joinh.call.status = "ok"
                        THEN JoinScan([joinh EXCEPT !.call = NoCall,
                                                    !.names = Tail(joinh.names)],
                                      members, roles)
                        ELSE [joinh EXCEPT !.pc = "raised", !.call = NoCall])
    /\ UNCHANGED <<dirVars, cfgVars, bot_state, loop, manual, upd,
                   reply, budget, keep_finished, ghostVars>>

(***************************************************************************)
(* The directory's side of add_roles / remove_roles                        *)
(***************************************************************************)
Tasks == {"manual", "join"} \cup Handlers

\* The call task id has outstanding, or NoCall.
CallOf(id) ==
    CASE id = "manual" -> manual.call
      [] id = "join" -> joinh.call
      [] OTHER -> upd[id].call

\* The directory performs a call only for a member of the guild, a role of
\* the guild below the service account's top role, and with manage_roles.
CanApply(c) ==
    /\ c.guild \in manage_roles
    /\ c.user \in members[c.guild]
    /\ c.role \in guild_roles[c.guild]
    /\ ~AtOrAboveTop(c.guild, c.role)

RolesAfter(c) ==
    IF c.op = "add" THEN roles[c.guild][c.user] \cup {c.role}
    ELSE roles[c.guild][c.user] \ {c.role}

\* The task variables with task id's call given status st; `u` is the new upd.
CallStatus(id, st, u) ==
    /\ manual' = IF id = "manual" THEN [manual EXCEPT !.call.status = st] ELSE manual
    /\ joinh' = IF id = "join" THEN [joinh EXCEPT !.call.status = st] ELSE joinh
    /\ upd' = u

UpdWithStatus(id, st) ==
    IF id \in Handlers THEN [upd EXCEPT ![id].call.status = st] ELSE upd

\* The directory performs the call of task id; a change of the member's roles
\* is announced by an on_member_update event.
CallApplied(id) ==
    LET c == CallOf(id)
        old == roles[c.guild][c.user]
        new == RolesAfter(c)
        rl == [roles EXCEPT ![c.guild][c.user] = new]
        u == UpdWithStatus(id, "ok")
        h == member_update(c.guild, c.user, old, new, rl)
    IN  /\ c.status = "sent"
        /\ CanApply(c)
        /\ IF new = old
           THEN /\ CallStatus(id, "ok", u)
                /\ UNCHANGED <<roles, ghostVars>>
           ELSE /\ CanDispatch(u, h)
                /\ roles' = rl
                /\ CallStatus(id, "ok", Dispatched(u, h))
                /\ Disturb(id, SlotOf(u, h))
        /\ UNCHANGED <<bot_guilds, guild_roles, members, position, top_role,
                       manage_roles, bots, disabled, cfgVars, bot_state,
                       loop, reply, budget, keep_finished>>

\* The call of task id fails: the directory refuses it (Forbidden, NotFound)
\* or the transport fails.
CallFailed(id) ==
    /\ CallOf(id).status = "sent"
    /\ CallStatus(id, "error", UpdWithStatus(id, "error"))
    /\ UNCHANGED <<dirVars, cfgVars, bot_state, loop, reply, budget,
                   keep_finished, ghostVars>>

(***************************************************************************)
(* Changes made from outside the engine                                    *)
(***************************************************************************)
\* Somebody gives or takes role r of guild g to or from member user.
DirRoleChange(g, user, r) ==
    LET old == roles[g][user]
        new == IF r \in old THEN old \ {r} ELSE old \cup {r}
        rl == [roles EXCEPT ![g][user] = new]
        h == member_update(g, user, old, new, rl)
    IN  /\ budget > 0
        /\ user \in members[g]
        /\ r \in guild_roles[g]
        /\ CanDispatch(upd, h)
        /\ roles' = rl
        /\ upd' = Dispatched(upd, h)
        /\ budget' = budget - 1
        /\ Disturb("outside", SlotOf(upd, h))
        /\ UNCHANGED <<bot_guilds, guild_roles, members, position, top_role,
                       manage_roles, bots, disabled, cfgVars, bot_state,
                       loop, manual, joinh, reply, keep_finished>>

\* Somebody moves role r to the free position p of its guild.
DirMoveRole(r, p) ==
    /\ budget > 0
    /\ p # top_role[GuildOf(r)]
    /\ \A r2 \in guild_roles[GuildOf(r)] : position[r2] # p
    /\ position' = [position EXCEPT ![r] = p]
    /\ budget' = budget - 1
    /\ Disturb("outside", {})
    /\ UNCHANGED <<bot_guilds, guild_roles, members, roles, top_role,
                   manage_roles, bots, disabled, cfgVars, bot_state,
                   taskVars, reply, keep_finished>>

\* Somebody deletes role r: the guild no longer resolves it and no member
\* holds it.  The directory announces no member update for it.
DirDeleteRole(r) ==
    /\ budget > 0
    /\ r \in guild_roles[GuildOf(r)]
    /\ guild_roles' = [guild_roles EXCEPT ![GuildOf(r)] = @ \ {r}]
    /\ roles' = [roles EXCEPT ![GuildOf(r)] = [u \in Users |-> @[u] \ {r}]]
    /\ budget' = budget - 1
    /\ Disturb("outside", {})
    /\ UNCHANGED <<bot_guilds, members, position, top_role, manage_roles,
                   bots, disabled, cfgVars, bot_state, taskVars, reply,
                   keep_finished>>

\* A user joins guild g, with no roles: on_member_join.
DirJoin(g, user) ==
    LET mb == [members EXCEPT ![g] = @ \cup {user}]
        rl == [roles EXCEPT ![g][user] = {}]
        j == member_join(g, user, mb, rl)
    IN  /\ budget > 0
        /\ user \notin members[g]
        /\ Finished(joinh.pc)
        /\ members' = mb
        /\ roles' = rl
        /\ joinh' = j
        /\ budget' = budget - 1
        /\ Disturb("outside", IF Finished(j.pc) THEN {} ELSE {"join"})
        /\ UNCHANGED <<bot_guilds, guild_roles, position, top_role,
                       manage_roles, bots, disabled, cfgVars, bot_state,
                       loop, manual, upd, reply, keep_finished>>

\* A member leaves guild g.
DirLeave(g, user) ==
    /\ budget > 0
    /\ user \in members[g]
    /\ members' = [members EXCEPT ![g] = @ \ {user}]
    /\ budget' = budget - 1
    /\ Disturb("outside", {})
    /\ UNCHANGED <<bot_guilds, guild_roles, roles, position, top_role,
                   manage_roles, bots, disabled, cfgVars, bot_state,
                   taskVars, reply, keep_finished>>

(***************************************************************************)
(* The rule commands                                                       *)
(***************************************************************************)
\* The answer of command cmd about rule name of guild g.
Answer(cmd, g, name, result) ==
    [NoReply EXCEPT !.cmd = cmd, !.guild = g, !.name = name, !.result = result,
                    !.tick = ~reply.tick]

\* Line 258: commands.RoleConverter().convert(other_ctx, role_to_check) finds
\* the role among the roles of other_ctx.guild, or raises BadArgument.
RoleConverter(other_server, argument) == argument \in guild_roles[other_server]

\* Lines 246-262: what rs_add answers; "tick" is the success of line 269.
rs_add_result(g, author_top, owner, admin_both, name, role_to_add, other_server, role_to_check) ==
    IF ~admin_both THEN "You must be an Administrator in both servers."
    ELSE IF position[role_to_add] >= author_top /\ ~owner
         THEN "That role is above your highest role."
    ELSE IF AtOrAboveTop(g, role_to_add) THEN "That role is above my highest role."
    ELSE IF ~RoleConverter(other_server, role_to_check) THEN "BadArgument"
    ELSE IF name \in DOMAIN rules[g] THEN "A rule with that name already exists."
    ELSE "tick"

\* Lines 236-273: rolesync add, by an author whose top role is at author_top,
\* who is or is not the guild's owner and an administrator of both guilds.
rs_add(g, author_top, owner, admin_both, name, role_to_add, other_server, role_to_check) ==
    LET result == rs_add_result(g, author_top, owner, admin_both, name,
                                role_to_add, other_server, role_to_check)
    IN  /\ role_to_add \in guild_roles[g]
        /\ other_server \in bot_guilds
        /\ reply' = [Answer("rs_add", g, name, result)
                       EXCEPT !.author_top = author_top, !.owner = owner]
        /\ IF result = "tick"
           THEN /\ rules' = [rules EXCEPT ![g] =
                               DictSet(@, name, Pair(role_to_add, other_server,
                                                     role_to_check))]
                /\ Disturb("outside", {})
           ELSE UNCHANGED <<rules, ghostVars>>
        /\ UNCHANGED <<dirVars, dmroles, bot_state, taskVars, budget,
                       keep_finished>>

\* Lines 452-458: what add_rolesync_pair returns.
add_rolesync_pair_result(g, role_to_add_id, other_server_id, role_to_check_id) ==
    IF ~get_role(g, role_to_add_id) \/ ~get_guild(other_server_id)
    THEN "Role or server not found."
    ELSE IF ~get_role(other_server_id, role_to_check_id)
    THEN "Source role not found."
    ELSE "success"

\* Lines 443-465: the Assistant's add_rolesync_pair.
add_rolesync_pair(g, name, role_to_add_id, other_server_id, role_to_check_id) ==
    LET result == add_rolesync_pair_result(g, role_to_add_id, other_server_id,
                                           role_to_check_id)
    IN  /\ reply' = Answer("add_rolesync_pair", g, name, result)
        /\ IF result = "success"
           THEN /\ rules' = [rules EXCEPT ![g] =
                               DictSet(@, name, Pair(role_to_add_id,
                                                     other_server_id,
                                                     role_to_check_id))]
                /\ Disturb("outside", {})
           ELSE UNCHANGED <<rules, ghostVars>>
        /\ UNCHANGED <<dirVars, dmroles, bot_state, taskVars, budget,
                       keep_finished>>

\* Lines 275-282 with the rule removed from the settings of every guild.
rs_removeEverywhere(g, name) ==
    /\ IF name \notin DOMAIN rules[g]
       THEN /\ reply' = Answer("rs_remove", g, name, "No rule with that name.")
            /\ UNCHANGED <<rules, ghostVars>>
       ELSE /\ reply' = Answer("rs_remove", g, name, "tick")
            /\ rules' = [g2 \in Guilds |-> DictDel(rules[g2], name)]
            /\ Disturb("outside", {})
    /\ UNCHANGED <<dirVars, dmroles, bot_state, taskVars, budget, keep_finished>>

\* Lines 275-282: rolesync remove.
rs_remove(g, name) ==
    /\ IF name \notin DOMAIN rules[g]
       THEN /\ reply' = Answer("rs_remove", g, name, "No rule with that name.")
            /\ UNCHANGED <<rules, ghostVars>>
       ELSE /\ reply' = Answer("rs_remove", g, name, "tick")
            /\ rules' = [rules EXCEPT ![g] = DictDel(@, name)]
            /\ Disturb("outside", {})
    /\ UNCHANGED <<dirVars, dmroles, bot_state, taskVars, budget, keep_finished>>

\* Lines 467-470: the Assistant's remove_rolesync_pair.
remove_rolesync_pair(g, name) ==
    /\ reply' = Answer("remove_rolesync_pair", g, name, "success")
    /\ rules' = [rules EXCEPT ![g] = DictDel(@, name)]
    /\ IF name \in DOMAIN rules[g] THEN Disturb("outside", {})
       ELSE UNCHANGED ghostVars
    /\ UNCHANGED <<dirVars, dmroles, bot_state, taskVars, budget, keep_finished>>

\* Lines 284-297: rolesync view.  A line is made for a rule whose target
\* role, source guild and source role resolve (line 293); with no line the
\* answer is "None configured.".
rs_view(g) ==
    LET cfg == rules[g]
        shown == {k \in DOMAIN cfg :
                    /\ get_role(g, cfg[k].to_add)
                    /\ get_guild(cfg[k].other_server)
                    /\ get_role(cfg[k].other_server, cfg[k].to_check)}
    IN  /\ reply' = [Answer("rs_view", g, "",
                             IF shown = {} THEN "None configured." ELSE "lines")
                       EXCEPT !.listed = [k \in shown |-> cfg[k]]]
        /\ UNCHANGED <<dirVars, cfgVars, bot_state, taskVars, budget,
                       keep_finished, ghostVars>>

\* Lines 472-473: the Assistant's view_rolesync_settings returns the stored
\* dict.
view_rolesync_settings(g) ==
    /\ reply' = [Answer("view_rolesync_settings", g, "", "rules")
                   EXCEPT !.listed = rules[g]]
    /\ UNCHANGED <<dirVars, cfgVars, bot_state, taskVars, budget,
                   keep_finished, ghostVars>>

(***************************************************************************)
(* The DM-on-role commands.  Their answers do not depend on the state.      *)
(***************************************************************************)
\* Lines 316-325: rolesync setdmrole; the role is one of the guild's.
rs_setdmrole(g, role, message) ==
    /\ role \in guild_roles[g]
    /\ dmroles' = [dmroles EXCEPT ![g] = DictSet(@, Str(role), message)]
    /\ Disturb("outside", {})
    /\ UNCHANGED <<dirVars, rules, bot_state, taskVars, reply, budget,
                   keep_finished>>

\* Lines 488-491: the Assistant's set_dm_role; role_id is any integer.
set_dm_role(g, role_id, message) ==
    /\ dmroles' = [dmroles EXCEPT ![g] = DictSet(@, Str(role_id), message)]
    /\ Disturb("outside", {})
    /\ UNCHANGED <<dirVars, rules, bot_state, taskVars, reply, budget,
                   keep_finished>>

\* Lines 327-332: rolesync removedmrole.
rs_removedmrole(g, role) ==
    /\ role \in guild_roles[g]
    /\ dmroles' = [dmroles EXCEPT ![g] = DictDel(@, Str(role))]
    /\ Disturb("outside", {})
    /\ UNCHANGED <<dirVars, rules, bot_state, taskVars, reply, budget,
                   keep_finished>>

\* Lines 493-496: the Assistant's remove_dm_role.
remove_dm_role(g, role_id) ==
    /\ dmroles' = [dmroles EXCEPT ![g] = DictDel(@, Str(role_id))]
    /\ Disturb("outside", {})
    /\ UNCHANGED <<dirVars, rules, bot_state, taskVars, reply, budget,
                   keep_finished>>


(***************************************************************************)
(* Specifications.  Rule A of guild 1 gives role 11 of guild 1 to the      *)
(* holders of role 21 of guild 2.                                          *)
(***************************************************************************)
RuleA == Pair(11, 2, 21)

OnlyRuleA == [g \in Guilds |-> IF g = 1 THEN DictSet(EmptyDict, "A", RuleA)
                               ELSE EmptyDict]

\* The service account's top role in either guild.
TopPosition == 3

\* Roles 11 and 21 at the bottom, 12 and 22 next.
PositionsBelow == [r \in RoleIds |-> IF r \in {11, 21} THEN 1 ELSE 2]

\* The cog just loaded, in two guilds with all their roles.
InitEngine ==
    /\ bot_guilds = Guilds
    /\ guild_roles = [g \in Guilds |-> RolesOf(g)]
    /\ top_role = [g \in Guilds |-> TopPosition]
    /\ loop = [IdleLoop EXCEPT !.pc = "wait_ready"]
    /\ manual = IdleSweep
    /\ upd = [i \in Handlers |-> IdleUpd]
    /\ joinh = IdleJoin
    /\ reply = NoReply
    /\ budget = MaxChanges
    /\ quiet = {}
    /\ second = {}
    /\ last_sweep = NoSweep
    /\ dmroles = [g \in Guilds |-> EmptyDict]

\* The cog is enabled and may manage roles in both guilds, and no user is a
\* bot.
InitEnabled ==
    /\ InitEngine
    /\ manage_roles = Guilds
    /\ bots = {}
    /\ disabled = {}

\* The cog is loaded into a bot that is ready.
InitDirectory ==
    /\ InitEnabled
    /\ bot_state = "ready"

InitCommon ==
    /\ InitDirectory
    /\ rules = OnlyRuleA

\* Any mix of members holding the source role and the target role.
InitRoles ==
    /\ roles \in [Guilds -> [Users -> SUBSET RoleIds]]
    /\ \A u \in Users :
         /\ roles[1][u] \subseteq {11}
         /\ roles[2][u] \subseteq IF u \in members[2] THEN {21} ELSE {}

NoRoles == [g \in Guilds |-> [u \in Users |-> {}]]

(* The listeners and a command's sweeps, under changes of user 1's source  *)
(* role and a move of the target role above the service account's.         *)
Init ==
    /\ InitCommon
    /\ members = [g \in Guilds |-> Users]
    /\ InitRoles
    /\ keep_finished = TRUE
    /\ position = PositionsBelow

Next ==
    \/ \E rr \in BOOLEAN : rs_forcesync(1, "A", rr)
    \/ ManualForName \/ ManualForMember \/ ManualResume
    \/ \E i \in Handlers : UpdResume(i)
    \/ \E id \in {"manual"} \cup Handlers : CallApplied(id) \/ CallFailed(id)
    \/ DirRoleChange(2, 1, 21)
    \/ DirMoveRole(11, 4)

Spec == Init /\ [][Next]_vars

(* The scheduled loop, the sweeps of rule A by command in both modes and   *)
(* by the Assistant, under moves of the target role; user 1 may not be in  *)
(* the source guild.                                                       *)
InitSweep ==
    /\ InitCommon
    /\ members \in {[g \in Guilds |-> Users], [g \in Guilds |-> Users \ {g - 1}]}
    /\ InitRoles
    /\ keep_finished = FALSE
    /\ position = PositionsBelow

NextSweep ==
    \/ LoopRun
    \/ \E rr \in BOOLEAN : rs_forcesync(1, "A", rr)
    \/ ManualForName \/ ManualForMember \/ ManualResume
    \/ \E rr \in BOOLEAN : rs_forcesyncall(1, rr)
    \/ \E rr \in BOOLEAN : force_sync_roles(1, "A", rr)
    \/ \E rr \in BOOLEAN : force_sync_all_roles(1, rr)
    \/ CallApplied("manual") \/ CallFailed("manual")
    \/ \E p \in {1, 4} : DirMoveRole(11, p)

SpecSweep == InitSweep /\ [][NextSweep]_vars

(* The rule commands of guild 1, where role 12 sits above the service      *)
(* account's top role.                                                     *)
InitStore ==
    /\ InitCommon
    /\ members = [g \in Guilds |-> Users]
    /\ roles = NoRoles
    /\ keep_finished = FALSE
    /\ position = [PositionsBelow EXCEPT ![12] = 4]

NextStore ==
    \/ \E author_top \in Positions, owner, admin_both \in BOOLEAN, n \in Names,
          r \in RolesOf(1), c \in RoleIds :
         rs_add(1, author_top, owner, admin_both, n, r, 2, c)
    \/ \E n \in Names, r, c \in RoleIds, o \in GuildIds :
         add_rolesync_pair(1, n, r, o, c)
    \/ \E n \in Names : rs_remove(1, n)
    \/ \E n \in Names : remove_rolesync_pair(1, n)

SpecStore == InitStore /\ [][NextStore]_vars

(* The listeners with DM rules, under changes of user 1's roles in both    *)
(* guilds.  Each guild has its own message.                                *)
DmRoleIds == {11, 21}

MessageOf(g) == IF g = 1 THEN "welcome" ELSE "hello"

InitDM ==
    /\ InitCommon
    /\ members = [g \in Guilds |-> Users]
    /\ roles = NoRoles
    /\ keep_finished = TRUE
    /\ position = PositionsBelow

NextDM ==
    \/ \E g \in Guilds, r \in DmRoleIds : DirRoleChange(g, 1, r)
    \/ \E i \in Handlers : UpdResume(i)
    \/ \E i \in Handlers, o \in SendOutcomes : UpdSendReturn(i, o)
    \/ \E id \in Handlers : CallApplied(id) \/ CallFailed(id)
    \/ \E g \in Guilds, r \in DmRoleIds : rs_setdmrole(g, r, MessageOf(g))
    \/ \E g \in Guilds, r \in DmRoleIds : set_dm_role(g, r, MessageOf(g))
    \/ \E g \in Guilds, r \in DmRoleIds : rs_removedmrole(g, r)
    \/ \E g \in Guilds, r \in DmRoleIds : remove_dm_role(g, r)

SpecDM == InitDM /\ [][NextDM]_vars

(* The scheduled loop of a cog loaded as the bot starts, from before the    *)
(* connection is ready up to shutdown, under the Assistant's changes of the *)
(* rules of guild 1 and moves of role 11.  The loop's task is scheduled     *)
(* whenever it can run: its sleep ends, its awaits return.                  *)
InitLoop ==
    /\ InitEnabled
    /\ bot_state = "connecting"
    /\ rules = OnlyRuleA
    /\ members = [g \in Guilds |-> Users]
    /\ roles = NoRoles
    /\ keep_finished = FALSE
    /\ position = PositionsBelow

NextLoop ==
    \/ LoopStep
    \/ bot_ready
    \/ bot_close
    \/ cog_unload
    \/ \E n \in Names : add_rolesync_pair(1, n, 11, 2, 21)
    \/ \E n \in Names : remove_rolesync_pair(1, n)
    \/ \E p \in {1, 4} : DirMoveRole(11, p)

SpecLoop == InitLoop /\ [][NextLoop]_vars /\ WF_vars(LoopStep)

(* The rule commands of both guilds, by an administrator whose top role is  *)
(* above every role: each guild's rules give its lowest role, for role 11   *)
(* of guild 1 or role 21 of guild 2.  User 1 holds both of these roles.     *)
LowestRole(g) == IF g = 1 THEN 11 ELSE 21

InitScope ==
    /\ InitDirectory
    /\ rules = [g \in Guilds |-> EmptyDict]
    /\ members = [g \in Guilds |-> Users]
    /\ roles = [NoRoles EXCEPT ![1][1] = {11}, ![2][1] = {21}]
    /\ keep_finished = FALSE
    /\ position = PositionsBelow

NextScope ==
    \/ \E g, o \in Guilds, admin_both \in BOOLEAN, n \in Names :
         rs_add(g, 4, FALSE, admin_both, n, LowestRole(g), o, LowestRole(o))
    \/ \E g, o \in Guilds, n \in Names :
         add_rolesync_pair(g, n, LowestRole(g), o, LowestRole(o))
    \/ \E g \in Guilds, n \in Names : rs_remove(g, n)
    \/ \E g \in Guilds, n \in Names : remove_rolesync_pair(g, n)

SpecScope == InitScope /\ [][NextScope]_vars

(* Dangling rules.  Guild 1 has rule A and, after it, rule B, which gives   *)
(* role 12 to the holders of role 22 of guild 2.  Rule A names a guild the  *)
(* bot has left, or loses its source role 21 or its target role 11 when     *)
(* that role is deleted.  User 1 holds role 21 and is about to join guild 1 *)
(* and to gain role 22.                                                     *)
RuleB == Pair(12, 2, 22)

RuleAGone == Pair(11, 3, 21)

InitDangle ==
    /\ InitDirectory
    /\ rules \in {[g \in Guilds |->
                     IF g = 1 THEN DictSet(DictSet(EmptyDict, "A", a), "B", RuleB)
                     ELSE EmptyDict] : a \in {RuleA, RuleAGone}}
    /\ members = [g \in Guilds |-> IF g = 1 THEN {2} ELSE Users]
    /\ roles = [NoRoles EXCEPT ![2][1] = {21}, ![2][2] = {22}]
    /\ keep_finished = FALSE
    /\ position = PositionsBelow

NextDangle ==
    \/ LoopRun
    \/ \E rr \in BOOLEAN : rs_forcesyncall(1, rr)
    \/ ManualForName \/ ManualForMember \/ ManualResume
    \/ DirJoin(1, 1)
    \/ JoinResume
    \/ DirRoleChange(2, 1, 22)
    \/ \E i \in Handlers : UpdResume(i)
    \/ \E id \in Tasks : CallApplied(id) \/ CallFailed(id)
    \/ \E r \in {11, 21} : DirDeleteRole(r)

SpecDangle == InitDangle /\ [][NextDangle]_vars

(* Role-change events in a row.  Rule A alone; the members' roles agree with *)
(* it at the start; the source role 21 is given to and taken from members   *)
(* of both guilds, and nothing else changes from outside.                   *)
InitOrder ==
    /\ InitCommon
    /\ members = [g \in Guilds |-> Users]
    /\ roles \in {[g \in Guilds |-> [u \in Users |->
                     IF u \in S THEN {LowestRole(g)} ELSE {}]] : S \in SUBSET Users}
    /\ keep_finished = TRUE
    /\ position = PositionsBelow

NextOrder ==
    \/ \E u \in Users : DirRoleChange(2, u, 21)
    \/ \E i \in Handlers : UpdResume(i)
    \/ \E id \in Handlers : CallApplied(id) \/ CallFailed(id)

SpecOrder == InitOrder /\ [][NextOrder]_vars

(* Joins of guild 1, which has rules A and B.  A user may be a bot, absent  *)
(* from guild 2, or hold any of the source roles there; the cog may be      *)
(* disabled in guild 1 or lack manage_roles there; role 12 may sit above    *)
(* the service account's top role.  User 1's roles change meanwhile.        *)
BothRules ==
    [g \in Guilds |-> IF g = 1 THEN DictSet(DictSet(EmptyDict, "A", RuleA), "B", RuleB)
                      ELSE EmptyDict]

InitJoin ==
    /\ InitEngine
    /\ bot_state = "ready"
    /\ manage_roles \in {Guilds, {2}}
    /\ bots \in {{}, {2}}
    /\ disabled \in {{}, {1}}
    /\ rules = BothRules
    /\ members \in {[g \in Guilds |-> IF g = 1 THEN {} ELSE S] : S \in {Users, {2}}}
    /\ roles \in [Guilds -> [Users -> SUBSET RoleIds]]
    /\ \A u \in Users :
         /\ roles[1][u] = {}
         /\ roles[2][u] \subseteq IF u \in members[2] THEN {21, 22} ELSE {}
    /\ keep_finished = TRUE
    /\ position \in {PositionsBelow, [PositionsBelow EXCEPT ![12] = 4]}

NextJoin ==
    \/ \E u \in Users : DirJoin(1, u)
    \/ JoinResume
    \/ \E r \in {11, 22} : DirRoleChange(GuildOf(r), 1, r)
    \/ \E i \in Handlers : UpdResume(i)
    \/ \E id \in {"join"} \cup Handlers : CallApplied(id) \/ CallFailed(id)

SpecJoin == InitJoin /\ [][NextJoin]_vars

(* Role-change events of every kind.  Guild 1 has rule A; guild 2 has a     *)
(* rule that gives role 22 to the holders of role 12 of guild 1.  Any role  *)
(* of either guild is given to or taken from user 1, who starts with any    *)
(* roles.                                                                   *)
RuleBack == Pair(22, 1, 12)

CrossRules ==
    [g \in Guilds |-> DictSet(EmptyDict, "A", IF g = 1 THEN RuleA ELSE RuleBack)]

InitEvent ==
    /\ InitDirectory
    /\ rules = CrossRules
    /\ members = [g \in Guilds |-> Users]
    /\ roles \in [Guilds -> [Users -> SUBSET RoleIds]]
    /\ \A g \in Guilds :
         /\ roles[g][1] \subseteq RolesOf(g)
         /\ roles[g][2] = {}
    /\ keep_finished = TRUE
    /\ position = PositionsBelow

NextEvent ==
    \/ \E r \in RoleIds : DirRoleChange(GuildOf(r), 1, r)
    \/ \E i \in Handlers : UpdResume(i)
    \/ \E id \in Handlers : CallApplied(id) \/ CallFailed(id)

SpecEvent == InitEvent /\ [][NextEvent]_vars

(* The three paths to a call at once: user 1 joins guild 1, the source role *)
(* 21 is given to and taken from members of guild 2, and a command sweeps   *)
(* rule A in either mode.  User 2 starts with any of the two roles.         *)
InitPaths ==
    /\ InitCommon
    /\ members = [g \in Guilds |-> IF g = 1 THEN {2} ELSE Users]
    /\ roles \in [Guilds -> [Users -> SUBSET RoleIds]]
    /\ roles[1][1] = {} /\ roles[1][2] \subseteq {11}
    /\ \A u \in Users : roles[2][u] \subseteq {21}
    /\ keep_finished = FALSE
    /\ position = PositionsBelow

NextPaths ==
    \/ DirJoin(1, 1)
    \/ JoinResume
    \/ \E u \in Users : DirRoleChange(2, u, 21)
    \/ \E i \in Handlers : UpdResume(i)
    \/ \E rr \in BOOLEAN : rs_forcesync(1, "A", rr)
    \/ ManualForName \/ ManualForMember \/ ManualResume
    \/ \E id \in Tasks : CallApplied(id) \/ CallFailed(id)

SpecPaths == InitPaths /\ [][NextPaths]_vars

(* Position drift.  Guild 1 has rules A and B, created with both target     *)
(* roles below the service account's top role; role 11 is then moved above  *)
(* it, or back, while a command sweeps all rules and user 1 gains or loses   *)
(* the source role 21.                                                      *)
InitDrift ==
    /\ InitDirectory
    /\ rules = BothRules
    /\ members = [g \in Guilds |-> Users]
    /\ roles \in [Guilds -> [Users -> SUBSET RoleIds]]
    /\ \A u \in Users : roles[1][u] = {}
    /\ roles[2][1] \subseteq {21, 22}
    /\ roles[2][2] = {22}
    /\ keep_finished = FALSE
    /\ position = PositionsBelow

NextDrift ==
    \/ \E rr \in BOOLEAN : rs_forcesyncall(1, rr)
    \/ ManualForName \/ ManualForMember \/ ManualResume
    \/ DirRoleChange(2, 1, 21)
    \/ \E i \in Handlers : UpdResume(i)
    \/ \E id \in {"manual"} \cup Handlers : CallApplied(id) \/ CallFailed(id)
    \/ \E p \in {1, 4} : DirMoveRole(11, p)

SpecDrift == InitDrift /\ [][NextDrift]_vars

(* Grants and DMs.  Guild 1 gets a DM rule for the target role 11 of rule   *)
(* A.  User 1 holds the source role 21 without the target role, which only  *)
(* a command's sweep can give; user 2 gains or loses the source role, a     *)
(* live event.                                                              *)
InitNotify ==
    /\ InitCommon
    /\ members = [g \in Guilds |-> Users]
    /\ roles = [NoRoles EXCEPT ![2][1] = {21}]
    /\ keep_finished = TRUE
    /\ position = PositionsBelow

NextNotify ==
    \/ rs_setdmrole(1, 11, MessageOf(1))
    \/ \E rr \in BOOLEAN : rs_forcesync(1, "A", rr)
    \/ ManualForName \/ ManualForMember \/ ManualResume
    \/ DirRoleChange(2, 2, 21)
    \/ \E i \in Handlers : UpdResume(i)
    \/ \E i \in Handlers, o \in SendOutcomes : UpdSendReturn(i, o)
    \/ \E id \in {"manual"} \cup Handlers : CallApplied(id) \/ CallFailed(id)

SpecNotify == InitNotify /\ [][NextNotify]_vars

(* Listings.  Guild 1 has rule B and a rule A that may name a guild the bot *)
(* is not in; roles are deleted, rule A is removed or stored anew, and the  *)
(* rules of either guild are listed by command and by the Assistant.        *)
InitView ==
    /\ InitDirectory
    /\ rules \in {[g \in Guilds |->
                     IF g = 1 THEN DictSet(DictSet(EmptyDict, "A", a), "B", RuleB)
                     ELSE EmptyDict] : a \in {RuleA, RuleAGone}}
    /\ members = [g \in Guilds |-> Users]
    /\ roles = NoRoles
    /\ keep_finished = FALSE
    /\ position = PositionsBelow

NextView ==
    \/ \E g \in Guilds : rs_view(g)
    \/ \E g \in Guilds : view_rolesync_settings(g)
    \/ \E r \in RoleIds : DirDeleteRole(r)
    \/ rs_remove(1, "A")
    \/ add_rolesync_pair(1, "A", 11, 2, 21)

SpecView == InitView /\ [][NextView]_vars

(* Removal under way.  Guild 1 has rules A and B; rule A is removed by      *)
(* command and rule B by the Assistant while the scheduled loop runs and a  *)
(* command sweeps all rules.  User 1 holds one or both source roles.        *)
InitRemoval ==
    /\ InitDirectory
    /\ rules = BothRules
    /\ members = [g \in Guilds |-> Users]
    /\ roles \in [Guilds -> [Users -> SUBSET RoleIds]]
    /\ \A u \in Users : roles[1][u] = {}
    /\ roles[2][1] \in {{22}, {21, 22}}
    /\ roles[2][2] = {}
    /\ keep_finished = FALSE
    /\ position = PositionsBelow

NextRemoval ==
    \/ LoopRun
    \/ \E rr \in BOOLEAN : rs_forcesyncall(1, rr)
    \/ ManualForName \/ ManualForMember \/ ManualResume
    \/ CallApplied("manual") \/ CallFailed("manual")
    \/ rs_remove(1, "A")
    \/ remove_rolesync_pair(1, "B")

SpecRemoval == InitRemoval /\ [][NextRemoval]_vars

(* Rival rules.  Rules A and B of guild 1 both give role 11, A to the       *)
(* holders of role 21 of guild 2 and B to the holders of role 22.  The      *)
(* scheduled loop runs iteration after iteration until the bot is closed;   *)
(* user 1 starts with any of the three roles and gains or loses a source    *)
(* role.                                                                    *)
RuleRival == Pair(11, 2, 22)

RivalRules ==
    [g \in Guilds |-> IF g = 1 THEN DictSet(DictSet(EmptyDict, "A", RuleA), "B", RuleRival)
                      ELSE EmptyDict]

InitRivals ==
    /\ InitDirectory
    /\ rules = RivalRules
    /\ members = [g \in Guilds |-> Users]
    /\ roles \in [Guilds -> [Users -> SUBSET RoleIds]]
    /\ roles[1][1] \subseteq {11} /\ roles[1][2] = {}
    /\ roles[2][1] \subseteq {21, 22} /\ roles[2][2] = {}
    /\ keep_finished = FALSE
    /\ position = PositionsBelow

NextRivals ==
    \/ LoopRun
    \/ bot_close
    \/ \E r \in {21, 22} : DirRoleChange(2, 1, r)
    \/ \E i \in Handlers : UpdResume(i)
    \/ \E id \in Handlers : CallApplied(id) \/ CallFailed(id)

SpecRivals == InitRivals /\ [][NextRivals]_vars

(* The cog disabled in a guild.  Each guild has a rule for a role of the    *)
(* other, and the cog may be disabled in either.  User 1 joins guild 1,     *)
(* members gain and lose the source roles, and the scheduled loop runs.     *)
InitDisabled ==
    /\ InitEngine
    /\ bot_state = "ready"
    /\ manage_roles = Guilds
    /\ bots = {}
    /\ disabled \in {{}, {1}, {2}}
    /\ rules = CrossRules
    /\ members = [g \in Guilds |-> IF g = 1 THEN {2} ELSE Users]
    /\ roles \in [Guilds -> [Users -> SUBSET RoleIds]]
    /\ roles[1][1] = {} /\ roles[1][2] = {}
    /\ roles[2][1] \subseteq {21} /\ roles[2][2] = {}
    /\ keep_finished = TRUE
    /\ position = PositionsBelow

NextDisabled ==
    \/ LoopRun
    \/ DirJoin(1, 1)
    \/ JoinResume
    \/ \E r \in {12, 21} : DirRoleChange(GuildOf(r), 2, r)
    \/ \E i \in Handlers : UpdResume(i)
    \/ \E id \in {"join"} \cup Handlers : CallApplied(id) \/ CallFailed(id)

SpecDisabled == InitDisabled /\ [][NextDisabled]_vars

(* Bot accounts.  User 2 is a bot account.  Either user joins guild 1, the  *)
(* other being a member already; both gain and lose the source role 21; a   *)
(* command sweeps rule A, and guild 1 gets a DM rule for the target role.   *)
InitBots ==
    /\ InitEngine
    /\ bot_state = "ready"
    /\ manage_roles = Guilds
    /\ bots = {2}
    /\ disabled = {}
    /\ rules = OnlyRuleA
    /\ members \in {[g \in Guilds |-> IF g = 1 THEN {u} ELSE Users] : u \in Users}
    /\ roles \in [Guilds -> [Users -> SUBSET RoleIds]]
    /\ \A u \in Users : roles[1][u] = {} /\ roles[2][u] \subseteq {21}
    /\ keep_finished = FALSE
    /\ position = PositionsBelow

NextBots ==
    \/ \E u \in Users : DirJoin(1, u)
    \/ JoinResume
    \/ \E u \in Users : DirRoleChange(2, u, 21)
    \/ \E i \in Handlers : UpdResume(i)
    \/ \E i \in Handlers, o \in SendOutcomes : UpdSendReturn(i, o)
    \/ rs_setdmrole(1, 11, MessageOf(1))
    \/ \E rr \in BOOLEAN : rs_forcesync(1, "A", rr)
    \/ ManualForName \/ ManualForMember \/ ManualResume
    \/ \E id \in Tasks : CallApplied(id) \/ CallFailed(id)

SpecBots == InitBots /\ [][NextBots]_vars

(***************************************************************************)
(* The claims                                                              *)
(***************************************************************************)
\* C1: hierarchy safety.  No task ever issues add_roles or remove_roles for
\* a role that, as the call is issued, sits at or above the service account's
\* top role in the call's guild.
C1_HierarchySafety ==
    [][\A id \in Tasks :
         LET c == CallOf(id)'
         IN  (CallOf(id).status # "sent" /\ c.status = "sent")
               => position'[c.role] < top_role'[c.guild]]_vars

\* The gain of a rule's source role by a member of both guilds, where the
\* target role is below the service account's top role: <<g, name>> is the
\* rule, h the listener task of the event.
GainToMirror(h, g, name) ==
    LET pair == rules[g][name]
    IN  /\ pair.other_server = h.guild
        /\ pair.to_check \in h.after /\ pair.to_check \notin h.before
        /\ h.user \in members[g] /\ h.user \in members[h.guild]
        /\ get_role(g, pair.to_add)
        /\ ~AtOrAboveTop(g, pair.to_add)

\* The loss of a rule's source role by a member who held the target role as
\* the event came and has not got the source role back, the target role being
\* below the service account's top role.
LossToMirror(h, g, name) ==
    LET pair == rules[g][name]
    IN  /\ pair.other_server = h.guild
        /\ pair.to_check \in h.before /\ pair.to_check \notin h.after
        /\ pair.to_check \notin roles[h.guild][h.user]
        /\ h.user \in members[g]
        /\ pair.to_add \in h.held
        /\ get_role(g, pair.to_add)
        /\ ~AtOrAboveTop(g, pair.to_add)

C3_RevokedOnceHandled ==
    [][\A i \in Handlers :
         (upd'[i] # upd[i] /\ upd'[i].pc = "done")
           => \A g \in Guilds : \A n \in DOMAIN rules'[g] :
                LossToMirror(upd[i], g, n)' =>
                  rules'[g][n].to_add \notin roles'[g][upd'[i].user]]_vars

\* What C4 asks of a sweep of to_sync in guild g that has ended: in
\* revoke-drift mode no member without the source role, or outside the source
\* guild, holds the target role; in grant-only mode the members who held it
\* as the sweep began still hold it.
DriftPost(g, to_sync, remove_role, holders) ==
    IF remove_role
    THEN \A m \in members[g] :
           ~HasSrc(to_sync, m) => to_sync.to_add \notin roles[g][m]
    ELSE \A m \in holders \cap members[g] : to_sync.to_add \in roles[g][m]

\* C4 for the sweeps of a command: the last sweep that went through its
\* members undisturbed has left the guild as asked, and a sweep in grant-only
\* mode never issues remove_roles.
C4_CommandSweeps ==
    /\ manual.call.op = "remove" => manual.remove_role
    /\ last_sweep.quiet =>
         DriftPost(last_sweep.guild, last_sweep.to_sync, last_sweep.remove_role,
                   last_sweep.holders)

\* C4 for the scheduled sweep, which runs in revoke-drift mode: when the
\* sweep of a rule has ended, undisturbed, the guild is as asked.
C4_ScheduledSweep ==
    (loop.pc = "sleep" /\ loop.names # <<>> /\ "loop" \in quiet)
      => DriftPost(loop.guild, loop.settings[Head(loop.names)], TRUE, {})

\* C4: drift correction.  A sweep in revoke-drift mode takes the target role
\* from the members who hold it without the source role; a sweep in
\* grant-only mode leaves it with them.
C4_DriftCorrection == C4_CommandSweeps /\ C4_ScheduledSweep

\* C5: sweep idempotence.  A task that repeats a completed sweep, with no
\* change by anybody since that sweep began, issues no call.
C5_SweepIdempotence ==
    "manual" \in second => manual.call = NoCall /\ manual.calls = 0

\* The repeated sweep has gone through all members, after a first sweep that
\* issued calls.
C5_Witness ==
    /\ "manual" \in second
    /\ manual.pc = "for_member" /\ manual.members = <<>>
    /\ last_sweep.calls > 0

\* The step is an answered rule-creation command about rule n of guild g.
IsAdd(g, n) ==
    /\ reply'.tick # reply.tick
    /\ reply'.cmd \in {"rs_add", "add_rolesync_pair"}
    /\ reply'.guild = g /\ reply'.name = n

\* C6: rule uniqueness.  Creating a rule under a name the guild already has
\* is refused, on either entry point, and leaves the rule as it was.
C6_RuleUniqueness ==
    [][\A g \in Guilds : \A n \in DOMAIN rules[g] :
         IsAdd(g, n) => /\ reply'.result \notin {"tick", "success"}
                        /\ rules' = rules]_vars

\* C7: hierarchy at creation.  A rule-creation command stores a rule only if
\* the target role is strictly below the service account's top role and, for
\* the command of an operator, strictly below the operator's top role.
C7_HierarchyAtCreation ==
    [][\A g \in Guilds : \A n \in Names :
         (IsAdd(g, n) /\ rules' # rules)
           => LET to_add == rules'[g][n].to_add
              IN  /\ position[to_add] < top_role[g]
                  /\ reply'.cmd = "rs_add" => position[to_add] < reply'.author_top]_vars

\* The sends of listener task i for role r.
Sends(i, r) == {k \in DOMAIN upd[i].dms : upd[i].dms[k].role = r}

\* C8, never more than once: a listener task sends at most one DM per role.
C8_AtMostOnce ==
    \A i \in Handlers : \A r \in RoleIds : Cardinality(Sends(i, r)) <= 1

\* C8, never zero times: a listener task that ended undisturbed and without
\* an exception has sent a DM for each gained role with a DM rule in the
\* event's guild.
C8_AtLeastOnce ==
    \A i \in Handlers : \A r \in RoleIds :
      (/\ upd[i].pc = "done" /\ i \in quiet
       /\ r \in upd[i].after /\ r \notin upd[i].before
       /\ Str(r) \in DOMAIN dmroles[upd[i].guild])
        => Sends(i, r) # {}

\* C8: the member is sent the DM of a gained role exactly once per event,
\* whatever DM rules the member's other guilds have.
C8_ExactlyOnce == C8_AtMostOnce /\ C8_AtLeastOnce

\* C9: a listener task whose DM was not delivered, whether refused or lost
\* in transport, does not end with an exception.
C9_DeliveryFailureSwallowed ==
    \A i \in Handlers :
      (\E k \in DOMAIN upd[i].dms : upd[i].dms[k].outcome # "ok")
        => upd[i].pc # "raised"

\* C10: sweep failure isolation.  When a sweep stops at a failed call, no
\* member and no rule is left unvisited.
C10_SweepFailureIsolation ==
    [][(manual.pc = "await_call" /\ manual'.pc = "raised")
         => /\ Tail(manual.members) = <<>>
            /\ Tail(manual.names) = <<>>]_vars

\* The loop has caught the error of an iteration and is in its sleep.
LoopCaught == loop.pc = "sleep" /\ loop.names # <<>>

\* C11: the scheduled loop is never ended by a failure.  An error raised in
\* an iteration takes the loop to its sleep; from that sleep the loop comes to
\* a further iteration, unless the bot is closed or the task is cancelled by
\* then; and the loop's task ends only with the bot closed or by cancellation.
C11_LoopSurvivesFailure ==
    /\ [][(loop.pc = "for_name" /\ loop'.pc \notin {"for_name", "for_guild"})
            => loop'.pc \in {"sleep", "cancelling"}]_vars
    /\ [](loop.pc = "exited" => bot_state = "closed")
    /\ (LoopCaught ~> (loop.pc \in {"for_guild", "exited", "cancelled"}))

\* After a caught error the loop has gone through its sleep and has begun a
\* further iteration.
C11_Witness ==
    /\ loop.printed
    /\ loop.pc = "for_guild"
    /\ bot_state = "ready"

\* The guild and the two roles of rule `pair` of guild g resolve.
Resolvable(g, pair) ==
    /\ get_guild(pair.other_server)
    /\ get_role(pair.other_server, pair.to_check)
    /\ get_role(g, pair.to_add)

\* The rule task id is at: the head of its names.
RuleAt(id) ==
    CASE id = "manual" -> manual.settings[Head(manual.names)]
      [] id = "join" -> joinh.settings[Head(joinh.names)]
      [] OTHER -> upd[id].settings[Head(upd[id].names)]

\* Task id issues a call in this step.
Issues(id) == CallOf(id).status # "sent" /\ CallOf(id)'.status = "sent"

\* C12: dangling rules are tolerated.  No task ever issues a call for a rule
\* whose guild or roles do not resolve as the call is issued.
C12_NoCallForDangling ==
    [][\A id \in Tasks :
         Issues(id) => Resolvable(CallOf(id).guild, RuleAt(id))']_vars

\* Rule n of guild g is due to user u: it resolves, u is a member of g and
\* holds its source role but not its target role, which is below the service
\* account's top role.
Due(g, n, u) ==
    LET pair == rules[g][n]
    IN  /\ Resolvable(g, pair)
        /\ u \in members[g]
        /\ HasSrc(pair, u)
        /\ pair.to_add \notin roles[g][u]
        /\ ~AtOrAboveTop(g, pair.to_add)

\* The first of the names in S, in the order of iteration.
FirstOf(S) == Head(SelectSeq(NameSeq, LAMBDA n : n \in S))

\* The join listener of user u's joining guild g, with `names` still to do,
\* stands as the rules ask: at a call for the first rule that is due, or at
\* its end when none is.
JoinServes(g, u, names) ==
    LET due == {n \in names : Due(g, n, u)'}
    IN  IF due = {} THEN Finished(joinh'.pc)
        ELSE joinh'.call = Call("add", g, u, rules[g][FirstOf(due)].to_add)

\* A sweep's step at the head of its names: a rule that does not resolve is
\* passed over, and the sweep stands at the next rule.
SweepTolerates ==
    (manual.pc = "for_name" /\ manual.names # <<>> /\ manual' # manual)
      => IF Resolvable(manual.guild, RuleAt("manual"))
         THEN manual'.pc \in {"for_member", "for_name"}
         ELSE manual' = [manual EXCEPT !.names = Tail(manual.names)]

\* The scheduled loop's step at the head of its names: a rule that does not
\* resolve is passed over with no exception.
LoopTolerates ==
    (/\ loop.pc = "for_name" /\ loop.names # <<>> /\ loop' # loop
     /\ ~Resolvable(loop.guild, loop.settings[Head(loop.names)]))
      => /\ loop'.pc = "for_name"
         /\ loop'.names = Tail(loop.names)
         /\ loop'.printed = loop.printed

\* A role-change listener serves the rule that is due by the gain of the
\* event, whatever rules stand before it.
UpdServes ==
    \A u \in Users : \A n \in DOMAIN rules[1] :
      (/\ rules[1][n].other_server = 2
       /\ rules[1][n].to_check \in roles'[2][u] \ roles[2][u]
       /\ Due(1, n, u)')
        => \E i \in Handlers :
             upd'[i].call = Call("add", 1, u, rules[1][n].to_add)

\* The join listener serves the rules that are due, as it starts and as a
\* call of its has returned.
JoinTolerates ==
    /\ (joinh.pc = "idle" /\ members' # members)
         => \A u \in members'[1] \ members[1] :
              JoinServes(1, u, DOMAIN rules[1])
    /\ (joinh.pc = "await_call" /\ joinh.call.status = "ok" /\ joinh' # joinh)
         => \A g \in Guilds : \A u \in Users :
              (g = joinh.guild /\ u = joinh.user)
                => JoinServes(g, u, {Tail(joinh.names)[k] :
                                       k \in 1..(Len(joinh.names) - 1)})

\* C12 for the rules that do not resolve as a task looks them up: such a
\* rule gets no member loop, no call and no exception; the sweep, the
\* scheduled loop and the listeners go on to the rules after it; and no
\* listener and no sweep changes the stored rules.
C12_DanglingTolerated ==
    [][/\ SweepTolerates
       /\ LoopTolerates
       /\ \A id \in Tasks \ {"manual"} :
            Issues(id) => Resolvable(CallOf(id).guild, RuleAt(id))'
       /\ UpdServes
       /\ JoinTolerates
       /\ rules' = rules]_vars

\* A sweep of all rules has passed over the dangling rule A and has issued a
\* call for rule B.
C12_Witness ==
    /\ manual.pc = "await_call"
    /\ Head(manual.names) = "B"
    /\ ~Resolvable(1, manual.settings["A"])

\* C13: at most one outstanding request per guild, member and role.  No two
\* tasks have a call in flight for the same member and role of a guild.
C13_OneOutstanding ==
    \A id1 \in Tasks : \A id2 \in Tasks \ {id1} :
      (CallOf(id1).status = "sent" /\ CallOf(id2).status = "sent")
        => <<CallOf(id1).guild, CallOf(id1).user, CallOf(id1).role>>
             # <<CallOf(id2).guild, CallOf(id2).user, CallOf(id2).role>>

\* Every rule but rule n of guild g is after the step what it was before.
OtherRulesKept(g, n) ==
    \A g2 \in Guilds : \A n2 \in Names :
      (<<g2, n2>> # <<g, n>>)
        => /\ (n2 \in DOMAIN rules'[g2]) = (n2 \in DOMAIN rules[g2])
           /\ n2 \in DOMAIN rules[g2] => rules'[g2][n2] = rules[g2][n2]

\* C14: adding a rule only writes the rule store.  A rule-creation command,
\* accepted or refused, issues no call, starts no task, changes no member's
\* roles in any guild and no rule but the one it names.
C14_AddOnlyPersists ==
    [][\A g \in Guilds : \A n \in Names :
         IsAdd(g, n) => /\ UNCHANGED <<dirVars, taskVars, dmroles>>
                        /\ OtherRulesKept(g, n)]_vars

\* A rule has been added to a guild that held another rule, while the other
\* guild holds rules too and user 1 holds the roles the rules speak of.
C14_Witness ==
    /\ reply.cmd \in {"rs_add", "add_rolesync_pair"}
    /\ reply.result \in {"tick", "success"}
    /\ DOMAIN rules[reply.guild] = Names
    /\ \A g \in Guilds : DOMAIN rules[g] # {}
    /\ roles[1][1] = {11} /\ roles[2][1] = {21}

\* C15: no self-referential rule.  A rule-creation command whose source role
\* is its target role is refused and stores nothing.
C15_NoSelfReference ==
    [][\A g \in Guilds : \A n \in Names :
         (IsAdd(g, n) /\ reply'.result \in {"tick", "success"})
           => rules'[g][n].to_check # rules'[g][n].to_add]_vars

\* C16: rules are scoped by their guild.  A rule command of guild g leaves
\* the rules of every other guild as they were, and refuses a name as taken
\* only when guild g itself has a rule of that name.
C16_ScopedByGuild ==
    [][(reply'.tick # reply.tick)
         => /\ \A g2 \in Guilds \ {reply'.guild} : rules'[g2] = rules[g2]
            /\ reply'.result = "A rule with that name already exists."
                 => reply'.name \in DOMAIN rules[reply'.guild]]_vars

\* Both guilds hold a rule named A, with different bodies, the second added
\* by the command while the first was there.
C16_Witness ==
    /\ "A" \in DOMAIN rules[1] /\ "A" \in DOMAIN rules[2]
    /\ rules[1]["A"] # rules[2]["A"]
    /\ reply.cmd = "rs_add" /\ reply.result = "tick" /\ reply.name = "A"

\* C17: the sweep's postcondition.  After a sweep has gone through its
\* members with no failed call and no change by another party since it
\* began: in revoke-drift mode the members of the target guild who hold the
\* target role are those who hold the source role as members of the source
\* guild; in grant-only mode every holder of the source role holds the target
\* role and every member who held the target role still holds it.
C17_SweepPostcondition ==
    last_sweep.quiet =>
      LET g == last_sweep.guild
          to_sync == last_sweep.to_sync
      IN  IF last_sweep.remove_role
          THEN \A m \in members[g] :
                 (to_sync.to_add \in roles[g][m]) = HasSrc(to_sync, m)
          ELSE /\ \A m \in members[g] :
                    HasSrc(to_sync, m) => to_sync.to_add \in roles[g][m]
               /\ \A m \in last_sweep.holders \cap members[g] :
                    to_sync.to_add \in roles[g][m]

\* A revoke-drift sweep has ended undisturbed after granting the target role
\* to one member and taking it from another.
C17_Witness ==
    /\ last_sweep.quiet /\ last_sweep.remove_role
    /\ last_sweep.calls = 2
    /\ \E m \in last_sweep.holders : 11 \notin roles[1][m]
    /\ \E m \in members[1] \ last_sweep.holders : 11 \in roles[1][m]

\* C18: the modes of the sweeps.  The scheduled loop calls _sync_role in
\* revoke-drift mode; a sweep of a command in grant-only mode issues no
\* remove_roles; the Assistant's sweeps issue no call at all.
C18_SweepModes ==
    [][/\ (loop.pc = "for_name" /\ loop.names # <<>> /\ loop'.pc # "cancelling"
             /\ loop' # loop)
            => loop'.remove_role
       /\ (Issues("manual") /\ ~manual.remove_role)
            => manual'.call.op = "add"
       /\ (reply'.tick # reply.tick
             /\ reply'.cmd \in {"force_sync_roles", "force_sync_all_roles"})
            => UNCHANGED <<dirVars, taskVars>>]_vars

\* A grant-only sweep has gone through its members undisturbed and has left
\* the target role with a member who holds it without the source role.
C18_Witness ==
    /\ manual.pc = "for_member" /\ manual.members = <<>>
    /\ ~manual.remove_role
    /\ "manual" \in quiet
    /\ loop.remove_role
    /\ \E m \in members[1] :
         11 \in roles[1][m] /\ ~HasSrc(manual.settings["A"], m)

\* C19: a failed call does not stop a listener.  When the call of the join
\* listener has failed, the listener goes on to the rules after it: it stands
\* at a call for the next rule that is due, or at its end when none is.
C19_HandlerFailureIsolation ==
    [][(joinh.pc = "await_call" /\ joinh.call.status = "error" /\ joinh' # joinh)
         => \A g \in Guilds : \A u \in Users :
              (g = joinh.guild /\ u = joinh.user)
                => JoinServes(g, u, {Tail(joinh.names)[k] :
                                       k \in 1..(Len(joinh.names) - 1)})]_vars

\* C20: the DM does not depend on the sync.  A listener task that has ended,
\* undisturbed and with no DM lost in transport, has sent the DM of every
\* gained role with a DM rule in the event's guild, whether or not a rule
\* matched the event and whatever became of the rule's call.
C20_DmDespiteSyncFailure ==
    \A i \in Handlers : \A r \in RoleIds :
      (/\ upd[i].pc \in {"done", "raised"} /\ i \in quiet
       /\ r \in upd[i].after /\ r \notin upd[i].before
       /\ Str(r) \in DOMAIN dmroles[upd[i].guild]
       /\ \A k \in DOMAIN upd[i].dms : upd[i].dms[k].outcome # "HTTPException")
        => Sends(i, r) # {}

\* No listener task is running and none has ended with an exception.
HandlersAtRest == \A i \in Handlers : upd[i].pc \in {"idle", "done"}

\* C21: event ordering.  Role-change events of a member are handled in the
\* order of their delivery: when the listeners of a gain and a loss of the
\* source role have ended, with no failed call, the member holds the target
\* role exactly if the last event left the member with the source role.
C21_EventOrdering ==
    HandlersAtRest
      => \A u \in Users : (11 \in roles[1][u]) = (21 \in roles[2][u])

\* User u holds the target role of every rule of guild g that resolves, whose
\* source role u holds as a member of the source guild and whose target role
\* is below the service account's top role.
JoinOwed(g, u) ==
    \A n \in DOMAIN rules[g] :
      LET pair == rules[g][n]
      IN  (/\ Resolvable(g, pair)
           /\ HasSrc(pair, u)
           /\ ~AtOrAboveTop(g, pair.to_add))
            => pair.to_add \in roles[g][u]

C23_UnrelatedChangeNoOp ==
    \A i \in Handlers :
      LET h == upd[i]
      IN  h.call # NoCall
            => \E n \in DOMAIN rules[h.call.guild] :
                 LET pair == rules[h.call.guild][n]
                 IN  /\ pair.other_server = h.guild
                     /\ pair.to_add = h.call.role
                     /\ h.call.op = "add" => pair.to_check \in h.after \ h.before
                     /\ h.call.op = "remove" => pair.to_check \in h.before \ h.after

\* The listener of a change of role 22 has ended with no call, the member
\* holding rule A's source role 21 without its target role 11; and the
\* listener of a change in guild 1 has ended with no call, the member holding
\* role 12 without role 22.
C23_Witness ==
    /\ \E i \in Handlers :
         /\ upd[i].pc = "done" /\ upd[i].guild = 2
         /\ 22 \in upd[i].after \ upd[i].before
         /\ 21 \in upd[i].before
    /\ \E i \in Handlers :
         /\ upd[i].pc = "done" /\ upd[i].guild = 1
         /\ 11 \in upd[i].before \ upd[i].after
         /\ 12 \in upd[i].before
    /\ roles[1][1] = {12} /\ roles[2][1] = {21, 22}

\* C24: the current state is checked before a mutation.  On every path (the
\* join listener, the role-change listener, a sweep) a task issues add_roles
\* only for a member who, as the task reads the member's roles on issuing
\* the call, does not hold the role, and remove_roles only for a member who
\* then holds it.
C24_CheckedBeforeCall ==
    [][\A id \in Tasks :
         Issues(id)
           => \A g \in Guilds : \A u \in Users : \A r \in RoleIds :
                (/\ g = CallOf(id)'.guild
                 /\ u = CallOf(id)'.user
                 /\ r = CallOf(id)'.role)
                  => /\ CallOf(id)'.op = "add" => r \notin roles'[g][u]
                     /\ CallOf(id)'.op = "remove" => r \in roles'[g][u]]_vars

\* The join listener, a role-change listener and a sweep each have a call in
\* flight, a revoke among them.
C24_Witness ==
    /\ joinh.call.status = "sent"
    /\ manual.call.status = "sent"
    /\ \E i \in Handlers : upd[i].call.status = "sent"
    /\ \E id \in Tasks : CallOf(id).op = "remove"

\* C25: position drift after creation.  Once the target role of a rule has
\* come to sit at or above the service account's top role, also in the
\* middle of a sweep of that rule, no task issues a call for the rule; and a
\* sweep that comes to such a rule passes it over and stands at the next.
C25_DriftSkipped ==
    [][/\ \A id \in {"manual"} \cup Handlers :
            Issues(id)
              => \A g \in Guilds : \A r \in RoleIds :
                   (g = CallOf(id)'.guild /\ r = RuleAt(id)'.to_add)
                     => ~AtOrAboveTop(g, r)'
       /\ (/\ manual.pc = "for_name" /\ manual.names # <<>>
           /\ manual' # manual /\ ~Finished(manual'.pc)
           /\ AtOrAboveTop(manual.guild, RuleAt("manual").to_add))
            => manual' = [manual EXCEPT !.names = Tail(manual.names)]]_vars

C27_NothingBeforeReady ==
    /\ [](bot_state = "connecting"
            => /\ loop.pc \in {"wait_ready", "cancelling", "cancelled"}
               /\ loop.names = <<>> /\ loop.guilds = <<>>
               /\ ~loop.remove_role /\ ~loop.printed
               /\ \A id \in Tasks : CallOf(id) = NoCall)
    /\ [][loop'.pc = "for_guild" /\ loop.pc = "while" => bot_state = "ready"]_vars

\* The loop, held at line 159 until the connection was ready, has entered an
\* iteration and stands at a rule of guild 1.
C27_Witness ==
    /\ bot_state = "ready"
    /\ loop.pc = "for_name" /\ loop.guild = 1 /\ loop.names # <<>>

\* The directory performs task id's add_roles in this step, and the member's
\* roles change by it.
Granted(id) ==
    /\ CallOf(id).status = "sent" /\ CallOf(id)'.status = "ok"
    /\ CallOf(id).op = "add"
    /\ roles' # roles

\* In this step a listener task comes to stand at the send of the DM of role
\* r to user u.
DmBegun(u, r) ==
    \E i \in Handlers :
      /\ upd'[i] # upd[i]
      /\ upd'[i].pc = "await_send"
      /\ upd'[i].user = u
      /\ Head(upd'[i].added) = r

IsRemove(g, n) ==
    /\ reply'.tick # reply.tick
    /\ reply'.cmd \in {"rs_remove", "remove_rolesync_pair"}
    /\ reply'.guild = g /\ reply'.name = n

\* C29: removal by name.  On either entry point, removing a name the guild
\* has no rule of reports an error and leaves the rules as they were;
\* removing a name it has a rule of deletes that rule and no other.
C29_RemoveByName ==
    [][\A g \in Guilds : \A n \in Names :
         IsRemove(g, n)
           => IF n \in DOMAIN rules[g]
              THEN /\ n \notin DOMAIN rules'[g]
                   /\ OtherRulesKept(g, n)
              ELSE /\ reply'.result \notin {"tick", "success"}
                   /\ rules' = rules]_vars

\* C30: listing.  On either entry point, a listing of a guild's rules shows
\* every rule the guild has stored, the rules whose guild or roles do not
\* resolve among them.
C30_ListsEveryRule ==
    [][(reply'.tick # reply.tick
          /\ reply'.cmd \in {"rs_view", "view_rolesync_settings"})
         => reply'.listed = rules[reply'.guild]]_vars

\* The name of the rule task id is at.
NameAt(id) ==
    CASE id = "manual" -> Head(manual.names)
      [] id = "join" -> Head(joinh.names)
      [] OTHER -> Head(upd[id].names)

\* C31: removal takes effect at once.  No task issues a call on behalf of a
\* rule that, as the call is issued, is no longer in the rule store of the
\* call's guild, also when the task read the rules before the removal.
C31_NoCallAfterRemoval ==
    [][\A id \in Tasks :
         Issues(id)
           => \A g \in Guilds :
                g = CallOf(id)'.guild => NameAt(id)' \in DOMAIN rules'[g]]_vars

OwnerAt(id) ==
    CASE id = "manual" -> manual.guild
      [] id = "join" -> joinh.guild
      [] OTHER -> upd[id].tguild

\* The user task id is at: the member a sweep stands at, the user who joined,
\* the user of the role-change event.
MemberAt(id) ==
    CASE id = "manual" -> Head(manual.members)
      [] id = "join" -> joinh.user
      [] OTHER -> upd[id].user

\* C33: the frame of a call.  On every path (join listener, role-change
\* listener, sweep) a call issued for a rule is a call in the guild that owns
\* the rule, for the member the task is at and for the rule's target role,
\* which is a role of that guild; it is no call in the rule's source guild
\* and no call for the rule's source role.
C33_CallTargetsRule ==
    [][\A id \in Tasks :
         Issues(id)
           => LET c == CallOf(id)'
                  pair == RuleAt(id)'
              IN  /\ c.guild = OwnerAt(id)'
                  /\ c.user = MemberAt(id)'
                  /\ c.role = pair.to_add
                  /\ c.role \in RolesOf(c.guild)
                  /\ c.guild # pair.other_server
                  /\ c.role # pair.to_check]_vars

\* The join listener has a call in flight for user 1, a sweep for user 2 and
\* a role-change listener for either, each in guild 1 for role 11.
C33_Witness ==
    /\ joinh.call.status = "sent" /\ joinh.call.user = 1
    /\ manual.call.status = "sent" /\ manual.call.user = 2
    /\ \E i \in Handlers : upd[i].call.status = "sent"
    /\ \A id \in Tasks :
         CallOf(id).status = "sent"
           => CallOf(id).guild = 1 /\ CallOf(id).role = 11

\* C34: the cog disabled in a guild.  Where the cog is disabled in a guild,
\* the join listener and the role-change listener issue no call in that
\* guild, and the scheduled loop does not go into the rules of that guild.
\* The setting is the one the tests of lines 96, 111 and 163 find; it stays
\* as it is while the tasks run.
C34_DisabledGuildUntouched ==
    [][/\ \A id \in {"join"} \cup Handlers :
            Issues(id) => CallOf(id)'.guild \notin disabled'
       /\ loop'.pc = "for_name" => loop'.guild \notin disabled']_vars

\* The cog is disabled in guild 1.  User 1, who holds the source role 21, has
\* joined guild 1 and the join listener has ended; the listener of user 2's
\* gain of role 21 has ended; the scheduled loop has been through its
\* iteration; and neither user holds the target role 11.
C34_Witness ==
    /\ disabled = {1}
    /\ joinh.pc = "done" /\ joinh.guild = 1 /\ joinh.user = 1
    /\ 21 \in roles[2][1]
    /\ \E i \in Handlers :
         /\ upd[i].pc = "done" /\ upd[i].guild = 2 /\ upd[i].user = 2
         /\ 21 \in upd[i].after \ upd[i].before
    /\ 21 \in roles[2][2]
    /\ loop.pc = "sleep"
    /\ \A u \in Users : 11 \notin roles[1][u]

\* C35: bot accounts are left alone.  On no path (join listener, role-change
\* listener, sweep) does a task issue a call for a member who is a bot
\* account, and no listener sends a bot account a direct message.
C35_NothingForBots ==
    [][/\ \A id \in Tasks : Issues(id) => CallOf(id)'.user \notin bots'
       /\ \A i \in Handlers :
            upd'[i].pc = "await_send" => upd'[i].user \notin bots']_vars

\* C36: a join without manage_roles.  The join listener of a join of a guild
\* where the service account lacks manage_roles ends at once, without an
\* exception, and issues no call.
C36_JoinWithoutManageRoles ==
    (joinh.pc # "idle" /\ joinh.guild \notin manage_roles)
      => joinh.pc = "done" /\ joinh.call = NoCall

\* User 1, no bot account, holding both source roles, has joined guild 1,
\* where the cog is enabled and the service account lacks manage_roles: the
\* listener has ended and user 1 holds no role of guild 1.
C36_Witness ==
    /\ manage_roles = {2} /\ disabled = {}
    /\ joinh.pc = "done" /\ joinh.guild = 1 /\ joinh.user = 1
    /\ 1 \notin bots /\ 1 \in members[1]
    /\ roles[2][1] = {21, 22}
    /\ roles[1][1] = {}

====
